---------------------------- MODULE Spec2Model ----------------------------
(***************************************************************************)
(* A.R.T.I.S.T. rendering abstraction: Pipeline / Pass / Shader entities,  *)
(* their capability components (roles) and the compile-time Validator.     *)
(*                                                                         *)
(* The module holds one state machine per subsystem; each has its own      *)
(* specification (SpecPipeline, SpecLoop, SpecCycle, SpecRoles,            *)
(* SpecShader, SpecFree, SpecPass, SpecPassUse, SpecRead, SpecRelease,     *)
(* SpecSlot, SpecValidator) over the shared variables, the variables of    *)
(* the other subsystems staying at their initial value.                    *)
(***************************************************************************)
EXTENDS Integers, Sequences, FiniteSets, TLC

VARIABLES
    \* ---- Pipeline subsystem
    passCount,      \* number of passes handed to the Pipeline constructor
    absentPasses,   \* positions of the pass list holding a null pass
    pipeline,       \* [cur, op, arg, trace, out, ret]: cursor and last call's record
    iterState,      \* history: "none" | "going" | "done" | "wrapped"; a loop's position
                    \* (SpecFree: the number of explicit free() calls)
    iterLog,        \* history: passes activated by the running useNext() loop
                    \* (SpecFree: the Freer invocations so far)
    \* ---- Shader subsystem
    shader,         \* per Shader: its Context [shaderType, shaderCode, shaderID]
    hist,           \* per Shader, history: [kind, created, dels, alive]
    driver,         \* native objects: [next, shaders, programs, stale, again, log,
                    \* freeFails, kind]
    file,           \* per Shader: the source file at its path
    sh,             \* last Shader or Pass call: [op, who, trace, out, msg, ...]
    \* ---- Pass subsystem
    pass,           \* the Pass Context: [shaders, programId, uniforms, attributes, info,
                    \* alive, owners]
    env,            \* what the driver will answer: [fail, active]
    \* ---- Validator subsystem
    status,         \* per role of the (API, Profile) pair: absent | noOn | ok
    constructed,    \* entity kinds instantiated for the pair
    rejected,       \* entity kinds whose instantiation the build rejected
    vlog,           \* last entity operation: [kind, op, invoked, skipped, out]
    \* ---- Attribute / Uniform subsystem
    slot,           \* the typed value slot of the Attribute and of the Uniform Context
    acc             \* last Attribute / Uniform call: [op, on, type, val, trace, out, ret, ...]

pipeVars == <<passCount, absentPasses, pipeline, iterState, iterLog>>
shaderVars == <<shader, hist, driver, file, sh>>
passVars == <<pass, env>>
validatorVars == <<status, constructed, rejected, vlog>>
slotVars == <<slot, acc>>
vars == <<pipeVars, shaderVars, passVars, validatorVars, slotVars>>

\* ------------------------------------------------------------------ bounds
MaxPasses == 4

\* At most this many roles of the (API, Profile) pair are missing or lack on().
MaxDefects == 1

\* ------------------------------------------------------------- utilities
Ev(name, arg) == [ev |-> name, arg |-> arg]

Count(seq, name) == Cardinality({i \in DOMAIN seq : seq[i].ev = name})

Positions(seq, name) == {i \in DOMAIN seq : seq[i].ev = name}

RECURSIVE ArgsOf(_, _)
ArgsOf(seq, name) ==
    IF seq = <<>> THEN <<>>
    ELSE IF Head(seq).ev = name
         THEN <<Head(seq).arg>> \o ArgsOf(Tail(seq), name)
         ELSE ArgsOf(Tail(seq), name)

UpTo(n) == [i \in 1..n |-> i - 1]

\* Value of a variable of a subsystem the running specification does not exercise.
Idle == <<>>

(***************************************************************************)
(*                              PIPELINE                                   *)
(***************************************************************************)

\* PipelineContext accessors: plain data holders.
getCurrentPass(p) == p.cur

setCurrentPass(p, i) == [p EXCEPT !.cur = i]

getPassesCount == passCount

\* Variant: a User role that activates the first pass whatever the cursor.
PipelineUserFirst_on(p) ==
    [p EXCEPT !.trace = p.trace \o <<Ev("User", p.cur), Ev("Pass.use", 0)>>, !.out = "ok"]

\* Pipeline User role on a non-null Context: activates the pass stored at the
\* cursor; an index that names no pass, or a null pass, is a failure.
PipelineUser_on(p) ==
    IF p.cur \in 0..(passCount - 1) /\ p.cur \notin absentPasses
    THEN [p EXCEPT !.trace = p.trace \o <<Ev("User", p.cur), Ev("Pass.use", p.cur)>>,
                   !.out = "ok"]
    ELSE [p EXCEPT !.trace = p.trace \o <<Ev("User", p.cur)>>,
                   !.out = "ERROR::USER"]

\* Pipeline Resetter role: cursor back to the sentinel.
PipelineResetter_on(p) ==
    [p EXCEPT !.cur = -1, !.trace = p.trace \o <<Ev("Resetter", p.cur)>>, !.out = "ok"]

\* Variant: a hasNext that is still true at the last pass.
hasNextInclusive(p) == getCurrentPass(p) + 1 <= getPassesCount

\* IPipeline::hasNext
hasNext(p) == getCurrentPass(p) + 1 < getPassesCount

\* Variant: a use(i) that runs the role on the cursor it finds.
useKeepsCursor(p, i) == PipelineUser_on(p)

\* IPipeline::use(const int &pass): the cursor is written first, then the role runs.
use(p, i) == PipelineUser_on(setCurrentPass(p, i))

\* Variant: a reset that activates the first pass again.
resetThenUse(p) == PipelineUser_on(setCurrentPass(PipelineResetter_on(p), 0))

\* IPipeline::reset
reset(p) == PipelineResetter_on(p)

\* Variant: an advance that skips a pass.
NextPassSkipsOne(p) == getCurrentPass(p) + 2

\* The argument useNext() hands to use().
NextPass(p) == getCurrentPass(p) + 1

BoolStr(b) == IF b THEN "true" ELSE "false"

\* Variant: a useNext that resets as soon as it has activated the last pass.
useNextWraps(p) ==
    IF hasNext(p)
    THEN LET q == use(p, NextPass(p))
         IN  IF q.out # "ok" THEN [q EXCEPT !.ret = "none"]
             ELSE IF hasNext(q) THEN [q EXCEPT !.ret = "true"]
             ELSE [reset(q) EXCEPT !.ret = "false"]
    ELSE LET q == reset(p)
         IN  [q EXCEPT !.ret = IF q.out = "ok" THEN "false" ELSE "none"]

\* IPipeline::useNext; ret is "none" when the call is left by an exception.
useNext(p) ==
    IF hasNext(p)
    THEN LET q == use(p, NextPass(p))
         IN  [q EXCEPT !.ret = IF q.out = "ok" THEN BoolStr(hasNext(q)) ELSE "none"]
    ELSE LET q == reset(p)
         IN  [q EXCEPT !.ret = IF q.out = "ok" THEN "false" ELSE "none"]

Fresh(p, op) ==
    [p EXCEPT !.op = op, !.arg = 0, !.trace = <<>>, !.out = "ok", !.ret = "none"]

InitPipeline ==
    /\ passCount \in 0..MaxPasses
    /\ absentPasses \in SUBSET (0..(passCount - 1))
    /\ pipeline = [cur |-> -1, op |-> "ctor", arg |-> 0, trace |-> <<>>, out |-> "ok",
                   ret |-> "none"]
    /\ iterState = "none"
    /\ iterLog = <<>>
    /\ shader = Idle /\ hist = Idle /\ driver = Idle /\ file = Idle /\ sh = Idle
    /\ pass = Idle /\ env = Idle
    /\ status = Idle /\ constructed = Idle /\ rejected = Idle /\ vlog = Idle
    /\ slot = Idle /\ acc = Idle

\* pipeline.use(i), for any integer i.
Use(i) ==
    /\ pipeline' = use([Fresh(pipeline, "use") EXCEPT !.arg = i], i)
    /\ iterState' = "none"
    /\ iterLog' = <<>>
    /\ UNCHANGED <<passCount, absentPasses>>
    /\ UNCHANGED <<shaderVars, passVars, validatorVars, slotVars>>

\* pipeline.reset()
Reset ==
    /\ pipeline' = reset(Fresh(pipeline, "reset"))
    /\ iterState' = "none"
    /\ iterLog' = <<>>
    /\ UNCHANGED <<passCount, absentPasses>>
    /\ UNCHANGED <<shaderVars, passVars, validatorVars, slotVars>>

\* pipeline.useNext(); the history variables follow the loop
\* "from the reset state, call useNext() until it returns false".
UseNext ==
    LET q == useNext(Fresh(pipeline, "useNext"))
        st0 == IF pipeline.cur = -1 THEN "going" ELSE iterState
        log0 == IF pipeline.cur = -1 THEN <<>> ELSE iterLog
    IN  /\ pipeline' = q
        /\ iterState' = IF q.ret = "none" \/ st0 \in {"none", "wrapped"} THEN "none"
                        ELSE IF st0 = "done" THEN "wrapped"
                        ELSE IF q.ret = "true" THEN "going" ELSE "done"
        /\ iterLog' = IF q.ret = "none" \/ st0 \in {"none", "wrapped"} THEN <<>>
                      ELSE log0 \o ArgsOf(q.trace, "Pass.use")
        /\ UNCHANGED <<passCount, absentPasses>>
        /\ UNCHANGED <<shaderVars, passVars, validatorVars, slotVars>>
    /\ UNCHANGED <<shaderVars, passVars, validatorVars, slotVars>>

\* pipeline.hasNext(): a query, the record of the last call is replaced.
HasNext ==
    /\ pipeline' = [Fresh(pipeline, "hasNext") EXCEPT !.ret = BoolStr(hasNext(pipeline))]
    /\ UNCHANGED <<passCount, absentPasses, iterState, iterLog>>
    /\ UNCHANGED <<shaderVars, passVars, validatorVars, slotVars>>

UseArgs == (-2)..(MaxPasses + 1)

NextPipeline ==
    \/ \E i \in UseArgs : Use(i)
    \/ UseNext
    \/ Reset
    \/ HasNext

(***************************************************************************)
(*                      CLAIMS ABOUT THE PIPELINE                          *)
(***************************************************************************)

\* C1: after any sequence of use(i) (any integer i), useNext() and reset() on a
\* Pipeline holding N passes, the current-pass index is -1 or an index in 0..N-1.
\* use(i) stores i unchecked, so use(N) breaks it.
C1_CurrentIndexValid ==
    pipeline.cur = -1 \/ pipeline.cur \in 0..(passCount - 1)

\* C2 as stated: a useNext() loop started in the reset state and run until a call
\* returns false has activated passes 0..N-1 once each, in order, and has left the
\* cursor at -1.
C2_LoopEndsInResetState ==
    iterState = "done" => (iterLog = UpTo(passCount) /\ pipeline.cur = -1)

\* C2 amended: the loop activates passes 0..N-1 once each, in order; the call that
\* returns false is the one that activates the last pass, so the cursor is left at
\* N-1 (at -1 only when N = 0); one further useNext() activates nothing, resets
\* the cursor to -1 through the Resetter and returns false.
C2_LoopEndsAtLastPass ==
    /\ iterState = "going" => iterLog = UpTo(pipeline.cur + 1)
    /\ iterState = "done" =>
          /\ iterLog = UpTo(passCount)
          /\ pipeline.cur = (IF passCount = 0 THEN -1 ELSE passCount - 1)
    /\ iterState = "wrapped" =>
          /\ iterLog = UpTo(passCount)
          /\ pipeline.cur = -1
          /\ pipeline.op = "useNext" =>
                /\ pipeline.ret = "false"
                /\ pipeline.trace = <<Ev("Resetter", passCount - 1)>>

\* C2 witness: a loop over at least two passes ran to its end and wrapped.
C2_Witness ==
    /\ iterState = "wrapped"
    /\ passCount >= 2
    /\ pipeline.op = "useNext"

\* C20: hasNext() on a Pipeline with N passes and current index c returns true if
\* and only if c + 1 < N, and changes neither c nor the pass sequence.
C20_HasNextIffMorePasses ==
    [][pipeline'.op = "hasNext" =>
          /\ (pipeline'.ret = "true") <=> (pipeline.cur + 1 < passCount)
          /\ pipeline'.ret \in {"true", "false"}
          /\ pipeline'.out = "ok"
          /\ pipeline'.cur = pipeline.cur
          /\ passCount' = passCount
          /\ absentPasses' = absentPasses]_vars

\* C20 witness: hasNext() answered true with the cursor on a pass, and the pass
\* after it is the last one.
C20_Witness ==
    /\ pipeline.op = "hasNext"
    /\ pipeline.ret = "true"
    /\ pipeline.cur >= 0
    /\ pipeline.cur + 2 = passCount

\* C21: one useNext() call on a Pipeline with N passes and cursor c: when c + 1 < N
\* it sets the cursor to c + 1, invokes the User role exactly once, does not invoke
\* the Resetter and returns true iff c + 2 < N; otherwise it invokes reset() exactly
\* once, does not invoke the User role and returns false.
\* use(i) stores any i: from c = -2 the call hands the User role the index -1, the
\* role fails and the call returns nothing.
C21_UseNextAdvancesOrResets ==
    [][pipeline'.op = "useNext" =>
          IF pipeline.cur + 1 < passCount
          THEN /\ pipeline'.cur = pipeline.cur + 1
               /\ Count(pipeline'.trace, "User") = 1
               /\ Count(pipeline'.trace, "Resetter") = 0
               /\ pipeline'.ret \in {"true", "false"}
               /\ (pipeline'.ret = "true") <=> (pipeline.cur + 2 < passCount)
          ELSE /\ Count(pipeline'.trace, "Resetter") = 1
               /\ Count(pipeline'.trace, "User") = 0
               /\ pipeline'.ret = "false"]_vars

\* C22: use(i) sets the cursor to i and invokes the Pipeline's User role exactly
\* once, on the Pipeline's own Context (the role sees the cursor at i), without
\* invoking the Resetter and without changing the pass sequence.
C22_UseSetsCursorAndRunsUser ==
    [][pipeline'.op = "use" =>
          /\ pipeline'.cur = pipeline'.arg
          /\ ArgsOf(pipeline'.trace, "User") = <<pipeline'.arg>>
          /\ Count(pipeline'.trace, "Resetter") = 0
          /\ passCount' = passCount
          /\ absentPasses' = absentPasses]_vars

\* C22 witness: use(i) moved the cursor from another position onto a pass and
\* activated it.
C22_Witness ==
    /\ pipeline.op = "use"
    /\ pipeline.arg = 1
    /\ pipeline.cur = 1
    /\ pipeline.trace = <<Ev("User", 1), Ev("Pass.use", 1)>>

\* C36: use(i) writes the current index before it invokes the User role and does
\* not roll it back: when the User role fails (i names no pass, or the pass is
\* absent) the failure leaves use(i), nothing was activated, and the current
\* index is i, the index the role was run on.
C36_FailedUseKeepsIndex ==
    (pipeline.op = "use" /\ pipeline.out # "ok") =>
        /\ pipeline.cur = pipeline.arg
        /\ pipeline.trace = <<Ev("User", pipeline.arg)>>
        /\ pipeline.out = "ERROR::USER"
        /\ pipeline.ret = "none"
        /\ pipeline.arg \notin (0..(passCount - 1)) \ absentPasses

\* C36 witness: use(1) failed on a Pipeline whose pass 1 is absent, or use(i)
\* failed for an index past the last pass; the cursor is at the argument.
C36_Witness ==
    /\ pipeline.op = "use" /\ pipeline.out = "ERROR::USER"
    /\ pipeline.cur = pipeline.arg
    /\ \/ pipeline.arg = 1 /\ 1 \in absentPasses
       \/ pipeline.arg = passCount + 1

\* C23: reset() invokes the Resetter role exactly once and never the User role;
\* the Resetter sets the cursor to -1 from any prior value, an out-of-range one
\* included, and leaves the pass sequence unchanged.
C23_ResetRunsResetterOnly ==
    [][pipeline'.op = "reset" =>
          /\ Count(pipeline'.trace, "Resetter") = 1
          /\ Count(pipeline'.trace, "User") = 0
          /\ Count(pipeline'.trace, "Pass.use") = 0
          /\ pipeline'.cur = -1
          /\ pipeline'.out = "ok"
          /\ passCount' = passCount
          /\ absentPasses' = absentPasses]_vars

\* C23 witness: reset() ran on a cursor beyond the last pass; the Resetter event
\* carries the cursor it found.
C23_Witness ==
    /\ pipeline.op = "reset"
    /\ pipeline.cur = -1
    /\ \E e \in {pipeline.trace[k] : k \in DOMAIN pipeline.trace} :
           e.ev = "Resetter" /\ e.arg >= passCount

(***************************************************************************)
(*            THE LOOP  while (pipeline.hasNext()) pipeline.useNext();     *)
(*  run on a freshly constructed Pipeline. iterState is the loop's         *)
(*  position (test | body | ended | failed), iterLog the trace of each     *)
(*  iteration's useNext().                                                 *)
(***************************************************************************)
InitLoop ==
    /\ passCount \in 0..MaxPasses
    /\ absentPasses \in SUBSET (0..(passCount - 1))
    /\ pipeline = [cur |-> -1, op |-> "ctor", arg |-> 0, trace |-> <<>>, out |-> "ok",
                   ret |-> "none"]
    /\ iterState = "test"
    /\ iterLog = <<>>
    /\ shader = Idle /\ hist = Idle /\ driver = Idle /\ file = Idle /\ sh = Idle
    /\ pass = Idle /\ env = Idle
    /\ status = Idle /\ constructed = Idle /\ rejected = Idle /\ vlog = Idle
    /\ slot = Idle /\ acc = Idle

\* The loop condition: hasNext().
LoopTest ==
    /\ iterState = "test"
    /\ pipeline' = [Fresh(pipeline, "hasNext") EXCEPT !.ret = BoolStr(hasNext(pipeline))]
    /\ iterState' = IF hasNext(pipeline) THEN "body" ELSE "ended"
    /\ UNCHANGED <<passCount, absentPasses, iterLog>>
    /\ UNCHANGED <<shaderVars, passVars, validatorVars, slotVars>>

\* The loop body: useNext(); an exception leaves the loop.
LoopBody ==
    /\ iterState = "body"
    /\ pipeline' = useNext(Fresh(pipeline, "useNext"))
    /\ iterLog' = Append(iterLog, pipeline'.trace)
    /\ iterState' = IF pipeline'.out = "ok" THEN "test" ELSE "failed"
    /\ UNCHANGED <<passCount, absentPasses>>
    /\ UNCHANGED <<shaderVars, passVars, validatorVars, slotVars>>

NextLoop ==
    \/ LoopTest
    \/ LoopBody

\* The traces of the iterations, end to end.
RECURSIVE Flat(_)
Flat(log) == IF log = <<>> THEN <<>> ELSE Head(log) \o Flat(Tail(log))

\* C30: on a freshly constructed Pipeline with N passes (N >= 0) the loop
\* while (hasNext()) useNext(); ends after exactly N iterations, has invoked the
\* User role N times, once per pass and in order, and never the Resetter.
\* A loop that an exception leaves has met a null pointer in the pass list.
C30_LoopEndsAfterNIterations ==
    /\ [](/\ Len(iterLog) <= passCount
          /\ Count(Flat(iterLog), "Resetter") = 0
          /\ \A k \in DOMAIN iterLog : ArgsOf(iterLog[k], "User") = <<k - 1>>
          /\ iterState = "ended" =>
                /\ Len(iterLog) = passCount
                /\ ArgsOf(Flat(iterLog), "User") = UpTo(passCount)
                /\ ArgsOf(Flat(iterLog), "Pass.use") = UpTo(passCount)
          /\ iterState = "failed" => absentPasses # {})
    /\ <>(iterState \in {"ended", "failed"})
    /\ (absentPasses = {}) => <>(iterState = "ended")

\* C30 witness: the loop over three passes has ended after three iterations.
C30_Witness ==
    /\ iterState = "ended"
    /\ passCount = 3
    /\ Len(iterLog) = 3

(***************************************************************************)
(*        useNext() CALLED AGAIN AND AGAIN, FROM THE RESET STATE           *)
(*  iterLog holds the passes activated since the cursor last was at -1.    *)
(***************************************************************************)
InitCycle ==
    /\ passCount \in 1..MaxPasses
    /\ absentPasses \in SUBSET (0..(passCount - 1))
    /\ pipeline = [cur |-> -1, op |-> "ctor", arg |-> 0, trace |-> <<>>, out |-> "ok",
                   ret |-> "none"]
    /\ iterState = "cycle"
    /\ iterLog = <<>>
    /\ shader = Idle /\ hist = Idle /\ driver = Idle /\ file = Idle /\ sh = Idle
    /\ pass = Idle /\ env = Idle
    /\ status = Idle /\ constructed = Idle /\ rejected = Idle /\ vlog = Idle
    /\ slot = Idle /\ acc = Idle

\* pipeline.useNext(); a caller that goes on after a failure of the User role.
CycleStep ==
    /\ pipeline' = useNext(Fresh(pipeline, "useNext"))
    /\ iterLog' = (IF pipeline.cur = -1 THEN <<>> ELSE iterLog)
                      \o ArgsOf(pipeline'.trace, "Pass.use")
    /\ UNCHANGED <<passCount, absentPasses, iterState>>
    /\ UNCHANGED <<shaderVars, passVars, validatorVars, slotVars>>

NextCycle ==
    \/ CycleStep

\* The passes of the list that are passes, in order.
RECURSIVE StoredUpTo(_)
StoredUpTo(n) ==
    IF n = 0 THEN <<>>
    ELSE StoredUpTo(n - 1) \o (IF (n - 1) \in absentPasses THEN <<>> ELSE <<n - 1>>)

\* C31: on a Pipeline with N >= 1 passes, useNext() called without end from the
\* reset state repeats the cycle: activate 0, 1, ..., N-1, then reset to -1 with no
\* pass active, then activate 0 again; every pass is activated once per cycle and
\* the reset state is reached at the end of every cycle.
C31_IterationWraps ==
    /\ [][/\ pipeline.cur \in (-1)..(passCount - 1)
          /\ pipeline'.cur = (IF pipeline.cur + 1 < passCount THEN pipeline.cur + 1 ELSE -1)
          /\ ArgsOf(pipeline'.trace, "User") =
                (IF pipeline.cur + 1 < passCount THEN <<pipeline.cur + 1>> ELSE <<>>)
          /\ Count(pipeline'.trace, "Resetter") =
                (IF pipeline.cur + 1 < passCount THEN 0 ELSE 1)
          /\ pipeline'.cur = -1 => iterLog = StoredUpTo(passCount)
          /\ pipeline'.cur # -1 => iterLog' = StoredUpTo(pipeline'.cur + 1)]_vars
    /\ []<>(pipeline.cur = -1 /\ pipeline.op = "useNext")
    /\ \A i \in 0..(MaxPasses - 1) : i < passCount => []<>(pipeline.cur = i)

\* C31 witness: a cycle over three passes has ended in the reset state.
C31_Witness ==
    /\ passCount = 3
    /\ absentPasses = {}
    /\ pipeline.op = "useNext"
    /\ pipeline.cur = -1
    /\ Count(pipeline.trace, "Resetter") = 1

(***************************************************************************)
(*                              VALIDATOR                                  *)
(***************************************************************************)
Kinds == {"Shader", "Pass", "Pipeline", "Attribute", "Uniform"}

\* The role components an (API, Profile) pair may declare in its Contexts.
ShaderRoles == {"Shader.Loader", "Shader.Freer", "Shader.Reader"}

PassRoles == {"Pass.Loader", "Pass.Freer", "Pass.ShaderAttacher",
              "Pass.AttributeReader", "Pass.User", "Pass.UniformReader"}

PipelineRoles == {"Pipeline.Resetter", "Pipeline.User"}

AttributeRoles == {"Attribute.Binder", "Attribute.Unbinder", "Attribute.Setter<int>",
                   "Attribute.Setter<shared_ptr<int>>"}

UniformRoles == {"Uniform.Setter<int>", "Uniform.Setter<float>"}

Roles == ShaderRoles \cup PassRoles \cup PipelineRoles \cup AttributeRoles \cup UniformRoles

\* HasComponent<C>: the component type exists (is complete) for the pair.
HasComponent(r) == status[r] # "absent"

\* HasOnMethod<C, Context>: the component has the static on(shared_ptr<Context>).
HasOnMethod(r) == status[r] = "ok"

Present(rs) == \A r \in rs : HasComponent(r)

Wired(rs) == \A r \in rs : HasComponent(r) /\ HasOnMethod(r)

\* Variant: a concept that asks for the components but not for their on().
OpenGLShaderFlowNoOn == Present({"Shader.Loader", "Shader.Freer", "Shader.Reader"})

OpenGLShaderFlow == Wired({"Shader.Loader", "Shader.Freer", "Shader.Reader"})

OpenGLPassFlow ==
    Wired({"Pass.Loader", "Pass.Freer", "Pass.ShaderAttacher", "Pass.AttributeReader",
           "Pass.User"})

OpenGLPipelineFlow == Wired({"Pipeline.Resetter", "Pipeline.User"})

OpenGLAttributeFlow ==
    Wired({"Attribute.Binder", "Attribute.Unbinder", "Attribute.Setter<int>"})

OpenGLUniformFlow == Wired({"Uniform.Setter<int>"})

\* Validator::validatePass / validatePipeline / validateShader / validateAttribute /
\* validateUniform: each exists only when its concept holds.
Validate(k) ==
    CASE k = "Shader" -> OpenGLShaderFlow
      [] k = "Pass" -> OpenGLPassFlow
      [] k = "Pipeline" -> OpenGLPipelineFlow
      [] k = "Attribute" -> OpenGLAttributeFlow
      [] k = "Uniform" -> OpenGLUniformFlow

\* The roles the concept of a kind names.
Required(k) ==
    CASE k = "Shader" -> {"Shader.Loader", "Shader.Freer", "Shader.Reader"}
      [] k = "Pass" -> {"Pass.Loader", "Pass.Freer", "Pass.ShaderAttacher",
                        "Pass.AttributeReader", "Pass.User"}
      [] k = "Pipeline" -> {"Pipeline.Resetter", "Pipeline.User"}
      [] k = "Attribute" -> {"Attribute.Binder", "Attribute.Unbinder",
                             "Attribute.Setter<int>"}
      [] k = "Uniform" -> {"Uniform.Setter<int>"}

\* The operations of each entity and the roles each dispatches to, in order.
Ops(k) ==
    CASE k = "Shader" -> {"load", "free"}
      [] k = "Pass" -> {"load", "free", "use"}
      [] k = "Pipeline" -> {"use", "reset"}
      [] k = "Attribute" -> {"bind", "unbind", "set"}
      [] k = "Uniform" -> {"set<int>", "set<float>"}

Dispatch(k, op) ==
    CASE k = "Shader" /\ op = "load" -> <<"Shader.Reader", "Shader.Loader">>
      [] k = "Shader" /\ op = "free" -> <<"Shader.Freer">>
      [] k = "Pass" /\ op = "load" ->
            <<"Pass.Loader", "Pass.UniformReader", "Pass.AttributeReader">>
      [] k = "Pass" /\ op = "free" -> <<"Pass.Freer">>
      [] k = "Pass" /\ op = "use" -> <<"Pass.User">>
      [] k = "Pipeline" /\ op = "use" -> <<"Pipeline.User">>
      [] k = "Pipeline" /\ op = "reset" -> <<"Pipeline.Resetter">>
      [] k = "Attribute" /\ op = "bind" -> <<"Attribute.Binder">>
      [] k = "Attribute" /\ op = "unbind" -> <<"Attribute.Unbinder">>
      [] k = "Attribute" /\ op = "set" -> <<"Attribute.Setter<shared_ptr<int>>">>
      [] k = "Uniform" /\ op = "set<int>" -> <<"Uniform.Setter<int>">>
      [] k = "Uniform" /\ op = "set<float>" -> <<"Uniform.Setter<float>">>

\* Attribute::set and Uniform::set throw when the Setter is missing; every other
\* dispatch is an "if constexpr" whose body vanishes when the component is missing.
ThrowsWhenMissing(k, op) == k \in {"Attribute", "Uniform"} /\ op \notin {"bind", "unbind"}

Invoked(k, op) == SelectSeq(Dispatch(k, op), HasComponent)

Skipped(k, op) == {r \in Roles : (\E i \in DOMAIN Dispatch(k, op) : Dispatch(k, op)[i] = r)
                                 /\ ~HasComponent(r)}

\* Roles no concept names come without an "on"-less variant: such a component
\* breaks the build inside the dispatching member, outside the Validator.
Statuses(r) ==
    IF \E k \in Kinds : r \in Required(k) THEN {"ok", "absent", "noOn"} ELSE {"ok", "absent"}

InitValidator ==
    /\ \E D \in {X \in SUBSET Roles : Cardinality(X) <= MaxDefects} :
         \E d \in [D -> {"absent", "noOn"}] :
            /\ \A r \in D : d[r] \in Statuses(r)
            /\ status = [r \in Roles |-> IF r \in D THEN d[r] ELSE "ok"]
    /\ constructed = {}
    /\ rejected = {}
    /\ vlog = [kind |-> "none", op |-> "none", invoked |-> <<>>, skipped |-> {}, out |-> "ok"]
    /\ passCount = Idle /\ absentPasses = Idle /\ pipeline = Idle
    /\ iterState = Idle /\ iterLog = Idle
    /\ shader = Idle /\ hist = Idle /\ driver = Idle /\ file = Idle /\ sh = Idle
    /\ pass = Idle /\ env = Idle
    /\ slot = Idle /\ acc = Idle

\* The program names Shader<API, PROFILE> (or Pass, ...): the requires-clause on
\* the class template decides at build time whether the type exists.
Instantiate(k) ==
    /\ k \notin constructed \cup rejected
    /\ IF Validate(k)
       THEN /\ constructed' = constructed \cup {k}
            /\ rejected' = rejected
            /\ vlog' = [kind |-> k, op |-> "instantiate", invoked |-> <<>>,
                        skipped |-> {}, out |-> "ok"]
       ELSE /\ rejected' = rejected \cup {k}
            /\ constructed' = constructed
            /\ vlog' = [kind |-> k, op |-> "instantiate", invoked |-> <<>>,
                        skipped |-> {}, out |-> "BUILD_REJECTED"]
    /\ UNCHANGED <<status, pipeVars, shaderVars, passVars, slotVars>>

\* An operation of a constructed entity runs its dispatches.
Operate(k, op) ==
    /\ k \in constructed
    /\ vlog' = [kind |-> k, op |-> op, invoked |-> Invoked(k, op),
                skipped |-> Skipped(k, op),
                out |-> IF Skipped(k, op) # {} /\ ThrowsWhenMissing(k, op)
                        THEN "UNSUPPORTED_TYPE" ELSE "ok"]
    /\ UNCHANGED <<status, constructed, rejected, pipeVars, shaderVars, passVars, slotVars>>

NextValidator ==
    \/ \E k \in Kinds : Instantiate(k)
    \/ \E k \in Kinds : \E op \in Ops(k) : Operate(k, op)

(***************************************************************************)
(*                      CLAIMS ABOUT THE VALIDATOR                         *)
(***************************************************************************)

\* C3: for every entity kind, when a role the Validator requires for the kind is
\* missing or lacks its on(Context) entry point, no entity of the kind is ever
\* constructed: the build rejects it, and no operation of such an entity ever runs.
C3_DefectiveKindNeverConstructed ==
    \A k \in Kinds :
        (\E r \in Required(k) : status[r] # "ok") =>
            /\ k \notin constructed
            /\ vlog.kind = k => (vlog.op = "instantiate" /\ vlog.out = "BUILD_REJECTED")

\* C3 witness: a kind with a defective required role was named and rejected, while
\* an entity of another kind exists.
C3_Witness ==
    /\ \E k \in rejected : \E r \in Required(k) : status[r] = "noOn"
    /\ constructed # {}

\* C4: every role an operation of a constructed entity dispatches to is required by
\* the Validator, so no operation skips a role or throws for a missing component.
C4_NoDispatchToMissingRole ==
    vlog.skipped = {} /\ vlog.out # "UNSUPPORTED_TYPE"

(***************************************************************************)
(*                               SHADER                                    *)
(*  IShader / Shader<API, PROFILE> (Shader.hpp) with the Reader, Loader    *)
(*  and Freer roles of the Shader Context and the driver they call.        *)
(***************************************************************************)
\* ------------------------------------------------------------------ bounds
\* The driver hands out at most this many object names.
MaxHandles == 3

ShaderTypes ==
    {"VERTEX", "FRAGMENT", "GEOMETRY", "TESS_CONTROL", "TESS_EVALUATION", "COMPUTE"}

\* What lies at a Shader's path: nothing, a source that compiles, one that does not.
FileStates == {"missing", "good", "bad"}

\* Diagnostic texts the driver may hold for a failed compilation or link.
LogTexts == {"0:1: syntax error", "0:2: undeclared identifier"}

CountArg(seq, name, arg) ==
    Cardinality({i \in DOMAIN seq : seq[i].ev = name /\ seq[i].arg = arg})

CountArgAfter(seq, name, arg, pos) ==
    Cardinality({i \in DOMAIN seq : i > pos /\ seq[i].ev = name /\ seq[i].arg = arg})

\* Counts of the history stop at two: "twice or more".
AtMostTwo(n) == IF n > 2 THEN 2 ELSE n

\* Position of the last event (name, arg) of seq, 0 when there is none.
LastPos(seq, name, arg) ==
    LET S == {i \in DOMAIN seq : seq[i].ev = name /\ seq[i].arg = arg}
    IN  IF S = {} THEN 0 ELSE CHOOSE i \in S : \A j \in S : j <= i

\* Variant: a constructor that ignores the kind it is given.
IShaderAlwaysVertex(type) == [shaderType |-> "VERTEX", shaderCode |-> "", shaderID |-> 0]

\* IShader(path, type, context): setShaderType(type), setShaderPath(path) on a new
\* Context (no source cached, no handle).
IShader(type) == [shaderType |-> type, shaderCode |-> "", shaderID |-> 0]

\* The world one call runs in: the Contexts, the driver, and the call's record.
\* made[i] is the handle the driver returned for Shader i during the call.
\* The arguments of a call that takes none.
NoArg == [name |-> "", type |-> "", val |-> 0]

World ==
    [shaders |-> shader, drv |-> driver, pctx |-> pass, trace |-> <<>>,
     out |-> "ok", msg |-> "", made |-> [i \in DOMAIN shader |-> 0],
     raised |-> [err |-> "ok", msg |-> "", step |-> 0], arg |-> NoArg]

Call(w, name, arg) == [w EXCEPT !.trace = Append(@, Ev(name, arg))]

\* The steps of a load(): a Shader's load(), and the role invocations.
StepNames ==
    {"Shader.load", "Shader.Reader", "Shader.Loader",
     "Pass.Loader", "Pass.UniformReader", "Pass.AttributeReader"}

IsStep(e) == e.ev \in StepNames

Steps(trace) == SelectSeq(trace, IsStep)

\* A component throws: the call it runs in ends with err unless something catches
\* it. raised keeps what was thrown and the step that threw.
Raise(w, err, text) ==
    [w EXCEPT !.out = err, !.msg = text,
              !.raised = [err |-> err, msg |-> text, step |-> Len(Steps(w.trace))]]

\* ---------------------------------------------------------- driver boundary
\* glCreateShader: a name never handed out before; the caller reads it as
\* w.drv.next before the call.
\* drv.kind is the kind the last shader object was created with.
glCreateShader(w, type) ==
    [Call(w, "glCreateShader", w.drv.next) EXCEPT
        !.drv.shaders = @ \cup {w.drv.next}, !.drv.next = @ + 1, !.drv.kind = type]

\* Variant: every shader object is created as a vertex shader.
GLShaderTypeVertexOnly(type) == "GL_VERTEX_SHADER"

\* The native kind of a Context's shader kind.
GLShaderType(type) ==
    CASE type = "VERTEX" -> "GL_VERTEX_SHADER"
      [] type = "FRAGMENT" -> "GL_FRAGMENT_SHADER"
      [] type = "GEOMETRY" -> "GL_GEOMETRY_SHADER"
      [] type = "TESS_CONTROL" -> "GL_TESS_CONTROL_SHADER"
      [] type = "TESS_EVALUATION" -> "GL_TESS_EVALUATION_SHADER"
      [] type = "COMPUTE" -> "GL_COMPUTE_SHADER"

\* glDeleteShader(h): a delete of a name that is not a live shader is stale.
glDeleteShader(w, h) ==
    [Call(w, "glDeleteShader", h) EXCEPT
        !.drv.shaders = @ \ {h}, !.drv.stale = @ \/ h \notin w.drv.shaders]

\* GL_COMPILE_STATUS of a source.
Compiles(code) == code = "good"

\* ------------------------------------------------------------- Shader roles
\* Reader: reads the file at the Context's path into the empty source cache.
ShaderReader_on(w, i) ==
    LET w0 == Call(w, "Shader.Reader", i)
    IN  IF w0.shaders[i].shaderCode # "" THEN w0
        ELSE IF file[i] = "missing" THEN Raise(w0, "ERROR::SHADER::FILE_NOT_READ", "")
        ELSE [w0 EXCEPT !.shaders[i].shaderCode = file[i]]

\* Variant: a Loader that leaves the shader object of a failed compilation alive.
ShaderLoaderKeepsFailed_on(w, i) ==
    LET w0 == Call(w, "Shader.Loader", i)
        h == w0.drv.next
        w1 == [glCreateShader(w0, GLShaderType(w0.shaders[i].shaderType)) EXCEPT !.shaders[i].shaderID = h, !.made[i] = h]
        w2 == Call(Call(Call(w1, "glShaderSource", h), "glCompileShader", h),
                   "glGetShaderiv", h)
    IN  IF Compiles(w2.shaders[i].shaderCode) THEN w2
        ELSE Raise(Call(w2, "glGetShaderInfoLog", h),
                   "ERROR::SHADER::COMPILATION_FAILED", w2.drv.log)

\* Loader: create, submit the source, compile, query the status, keep the handle
\* in the Context; on a failed compilation fetch the log, release the shader
\* object (the Context keeps no handle to it) and raise COMPILATION_FAILED.
ShaderLoader_on(w, i) ==
    LET w0 == Call(w, "Shader.Loader", i)
        h == w0.drv.next
        w1 == [glCreateShader(w0, GLShaderType(w0.shaders[i].shaderType)) EXCEPT !.shaders[i].shaderID = h, !.made[i] = h]
        w2 == Call(Call(Call(w1, "glShaderSource", h), "glCompileShader", h),
                   "glGetShaderiv", h)
    IN  IF Compiles(w2.shaders[i].shaderCode) THEN w2
        ELSE LET w3 == glDeleteShader(Call(w2, "glGetShaderInfoLog", h), h)
             IN  Raise([w3 EXCEPT !.shaders[i].shaderID = 0],
                       "ERROR::SHADER::COMPILATION_FAILED", w3.drv.log)

\* Variant: a Freer that deletes whatever handle the Context holds, every time.
ShaderFreerUnguarded_on(w, i) ==
    glDeleteShader(Call(w, "Shader.Freer", i), w.shaders[i].shaderID)

\* Freer: releases the shader object the Context refers to, if any, and forgets
\* the handle, so that a second invocation issues no delete. A Freer that fails
\* raises before it releases anything.
ShaderFreer_on(w, i) ==
    LET w0 == Call(w, "Shader.Freer", i)
        h == w0.shaders[i].shaderID
    IN  IF "Shader" \in w0.drv.freeFails
        THEN Raise(w0, "ERROR::SHADER::FREE_FAILED", "release failed")
        ELSE IF h = 0 THEN w0
        ELSE [glDeleteShader(w0, h) EXCEPT !.shaders[i].shaderID = 0]

\* ------------------------------------------------------------ Shader entity
\* Shader::read(context), Shader::load(context), Shader::free(context).
Shader_read_on(w, i) ==
    IF HasComponent("Shader.Reader") THEN ShaderReader_on(w, i) ELSE w

Shader_load_on(w, i) ==
    IF HasComponent("Shader.Loader") THEN ShaderLoader_on(w, i) ELSE w

Shader_free_on(w, i) ==
    IF HasComponent("Shader.Freer") THEN ShaderFreer_on(w, i) ELSE w

\* Variant: a load() that reads the file whether or not the source is cached.
Shader_loadAlwaysReads(w, i) ==
    LET w0 == Call(w, "Shader.load", i)
        r == Shader_read_on(w0, i)
    IN  IF r.out = "ok" THEN Shader_load_on(r, i) ELSE r

\* IShader::load(): read when the cache is empty, then load; an exception of the
\* read leaves load() at once.
Shader_load(w, i) ==
    LET w0 == Call(w, "Shader.load", i)
        r == IF w0.shaders[i].shaderCode = "" THEN Shader_read_on(w0, i) ELSE w0
    IN  IF r.out = "ok" THEN Shader_load_on(r, i) ELSE r

\* Variant: a free() that remembers it has run and skips the Freer afterwards.
Shader_freeOnce(w, i) ==
    IF w.shaders[i].shaderID = 0 THEN Call(w, "Shader.free", i)
    ELSE Shader_free_on(Call(w, "Shader.free", i), i)

\* IShader::free().
Shader_free(w, i) == Shader_free_on(Call(w, "Shader.free", i), i)

\* Shader::~Shader(): free(), with nothing to catch what it raises.
Shader_dtor(w, i) ==
    LET f == Shader_free(Call(w, "~Shader", i), i)
    IN  IF f.out = "ok" THEN f ELSE [f EXCEPT !.out = "std::terminate"]

\* ------------------------------------------------------------------ history
\* Per Shader, after a call that ended in world w: the handle its last load()
\* obtained and the deletes issued for that handle since.
HistAfter(w) ==
    [i \in DOMAIN hist |->
        LET cp == LastPos(w.trace, "Shader.Loader", i)
            h == IF w.made[i] # 0 THEN w.made[i] ELSE hist[i].created
        IN  [kind |-> hist[i].kind,
             created |-> h,
             dels |-> AtMostTwo(IF w.made[i] # 0
                                THEN CountArgAfter(w.trace, "glDeleteShader", h, cp)
                                ELSE hist[i].dels + CountArg(w.trace, "glDeleteShader", h)),
             alive |-> hist[i].alive /\ LastPos(w.trace, "~Shader", i) = 0]]

\* The call op on entity who (0: the Pass) ended in world w.
Commit(w, op, who) ==
    /\ shader' = w.shaders
    /\ driver' = w.drv
    /\ pass' = w.pctx
    /\ hist' = HistAfter(w)
    /\ sh' = [op |-> op, who |-> who, trace |-> w.trace, out |-> w.out, msg |-> w.msg,
              atCall |-> (who # 0 /\ shader[who].shaderCode = ""),
              raised |-> w.raised,
              failed |-> sh.failed \cup (IF w.out # "ok" /\ op \in {"Shader.load", "Pass.load"}
                                         THEN {who} ELSE {}),
              loaded |-> (sh.loaded \/ (op = "Pass.load" /\ w.out = "ok")),
              arg |-> w.arg]

NoCall == [op |-> "ctor", who |-> 0, trace |-> <<>>, out |-> "ok", msg |-> "",
           atCall |-> FALSE, raised |-> [err |-> "ok", msg |-> "", step |-> 0],
           failed |-> {}, loaded |-> FALSE, arg |-> NoArg]

\* freeFails: the entity kinds whose Freer role fails when invoked.
NewDriver(text) ==
    [next |-> 1, shaders |-> {}, programs |-> {}, stale |-> FALSE, again |-> {},
     log |-> text, freeFails |-> {}, kind |-> ""]

\* The program runs until std::terminate is called.
Running == sh.out # "std::terminate"

\* One Shader<API, PROFILE> of any kind, for a pair the Validator accepts.
InitShader ==
    /\ \E k \in ShaderTypes :
          /\ shader = <<IShader(k)>>
          /\ hist = <<[kind |-> k, created |-> 0, dels |-> 0, alive |-> TRUE]>>
    /\ \E f \in FileStates : file = <<f>>
    /\ \E t \in LogTexts : driver = NewDriver(t)
    /\ sh = NoCall
    /\ pass = Idle /\ env = Idle
    /\ status = [r \in Roles |-> "ok"]
    /\ constructed = Idle /\ rejected = Idle /\ vlog = Idle
    /\ passCount = Idle /\ absentPasses = Idle /\ pipeline = Idle
    /\ iterState = Idle /\ iterLog = Idle
    /\ slot = Idle /\ acc = Idle

\* shader.load()
ShaderLoad(i) ==
    /\ Running
    /\ hist[i].alive
    /\ driver.next <= MaxHandles
    /\ Commit(Shader_load(World, i), "Shader.load", i)
    /\ UNCHANGED <<file, env, pipeVars, validatorVars, slotVars>>

\* shader.free()
ShaderFree(i) ==
    /\ Running
    /\ hist[i].alive
    /\ Commit(Shader_free(World, i), "Shader.free", i)
    /\ UNCHANGED <<file, env, pipeVars, validatorVars, slotVars>>

\* The Shader goes out of scope.
ShaderDestroy(i) ==
    /\ Running
    /\ hist[i].alive
    /\ Commit(Shader_dtor(World, i), "~Shader", i)
    /\ UNCHANGED <<file, env, pipeVars, validatorVars, slotVars>>

NextShader ==
    \/ \E i \in DOMAIN shader : ShaderLoad(i)
    \/ \E i \in DOMAIN shader : ShaderFree(i)
    \/ \E i \in DOMAIN shader : ShaderDestroy(i)

(***************************************************************************)
(*                        CLAIMS ABOUT THE SHADER                          *)
(***************************************************************************)

\* The driver reported a failed compilation to the Loader during the last call.
CompileFailed ==
    /\ sh.op = "Shader.load"
    /\ Count(sh.trace, "Shader.Loader") = 1
    /\ ~Compiles(shader[sh.who].shaderCode)

\* C7: when the driver reports a failed compilation, the Shader Loader fetches the
\* diagnostic log exactly once, deletes the shader object it has just created
\* exactly once, and raises COMPILATION_FAILED carrying the log text.
C7_CompileFailureLogsAndReleasesOnce ==
    CompileFailed =>
        /\ Len(ArgsOf(sh.trace, "glCreateShader")) = 1
        /\ ArgsOf(sh.trace, "glGetShaderInfoLog") = ArgsOf(sh.trace, "glCreateShader")
        /\ ArgsOf(sh.trace, "glDeleteShader") = ArgsOf(sh.trace, "glCreateShader")
        /\ sh.out = "ERROR::SHADER::COMPILATION_FAILED"
        /\ sh.msg = driver.log

\* C7 witness: a load() whose compilation failed, with the second log text.
C7_Witness ==
    /\ CompileFailed
    /\ sh.out = "ERROR::SHADER::COMPILATION_FAILED"
    /\ driver.log = "0:2: undeclared identifier"

\* C8: after a load() that succeeds the Context's handle is the value the native
\* create call returned, and the Context's kind is the kind given to the
\* constructor in every state, hence also after a failed load().
C8_HandleAndKindAfterLoad ==
    \A i \in DOMAIN shader :
        /\ shader[i].shaderType = hist[i].kind
        /\ (sh.op = "Shader.load" /\ sh.who = i /\ sh.out = "ok") =>
                ArgsOf(sh.trace, "glCreateShader") = <<shader[i].shaderID>>

\* C8 witness: a compute Shader loaded successfully for the second time.
C8_Witness ==
    /\ sh.op = "Shader.load" /\ sh.out = "ok"
    /\ shader[sh.who].shaderType = "COMPUTE"
    /\ shader[sh.who].shaderID = 2

\* The Reader raised during the last call.
ReaderRaised ==
    /\ sh.out # "ok"
    /\ sh.trace # <<>>
    /\ sh.trace[Len(sh.trace)].ev = "Shader.Reader"

ReaderOnceIffCacheEmpty ==
    /\ Count(sh.trace, "Shader.Reader") = (IF sh.atCall THEN 1 ELSE 0)
    /\ \A r \in Positions(sh.trace, "Shader.Reader") :
          \A l \in Positions(sh.trace, "Shader.Loader") : r < l

\* C9 as stated: load() invokes the Reader exactly once iff the source cache is
\* empty at the call, always before the Loader, and the Loader exactly once per
\* load() call in both cases.
C9_LoaderOncePerLoad ==
    sh.op = "Shader.load" =>
        /\ ReaderOnceIffCacheEmpty
        /\ Count(sh.trace, "Shader.Loader") = 1

\* C9 amended: load() invokes the Reader exactly once iff the source cache is
\* empty at the call, always before the Loader; the Loader is invoked exactly
\* once per load() call unless the Reader raised, and then not at all.
C9_LoaderOnceUnlessReaderRaised ==
    sh.op = "Shader.load" =>
        /\ ReaderOnceIffCacheEmpty
        /\ Count(sh.trace, "Shader.Loader") = (IF ReaderRaised THEN 0 ELSE 1)

\* C9 witness: a load() with an empty cache whose Reader raised.
C9_Witness ==
    /\ sh.op = "Shader.load" /\ sh.atCall
    /\ ReaderRaised
    /\ Count(sh.trace, "Shader.Loader") = 0

C35_SuccessfulCompileCalls ==
    (sh.op = "Shader.load" /\ sh.out = "ok") =>
        LET h == ArgsOf(sh.trace, "glCreateShader")
        IN  /\ Len(h) = 1
            /\ driver.kind = "GL_" \o hist[sh.who].kind \o "_SHADER"
            /\ h[1] \in driver.shaders
            /\ ArgsOf(sh.trace, "glShaderSource") = h
            /\ ArgsOf(sh.trace, "glCompileShader") = h
            /\ ArgsOf(sh.trace, "glGetShaderiv") = h
            /\ Count(sh.trace, "glDeleteShader") = 0
            /\ Count(sh.trace, "glGetShaderInfoLog") = 0

\* C35 witness: a geometry Shader compiled successfully.
C35_Witness ==
    /\ sh.op = "Shader.load" /\ sh.out = "ok"
    /\ Count(sh.trace, "glCompileShader") = 1
    /\ driver.kind = "GL_GEOMETRY_SHADER"

(***************************************************************************)
(*                     TYPED VALUE SLOT, UNIFORM, ATTRIBUTE                *)
(*  AttributeContext (its value slot is a std::any holding a               *)
(*  shared_ptr<T>), the UniformContext's slot, Uniform<API> (Uniform.hpp)  *)
(*  and IAttribute<API> (Attribute.hpp).                                   *)
(***************************************************************************)
\* ------------------------------------------------------------------ bounds
\* Values handed to a set: 1..MaxValue (for an Attribute: non-null pointers).
MaxValue == 2

Values == 1..MaxValue

\* The value types T a caller instantiates set<T> / get<T> with.
ValueTypes == {"int", "float"}

\* What a shared_ptr<T> that holds nothing reads as.
nullptr == 0

\* A slot nothing was stored in: std::any without a value.
NoValue == [tag |-> "none", val |-> nullptr]

\* One call on an entity whose Context's slot is ctx.
Cell(ctx) == [ctx |-> ctx, trace |-> <<>>, out |-> "ok", ret |-> nullptr]

Throw(c, err) == [c EXCEPT !.out = err]

\* ------------------------------------------------------- AttributeContext
\* Variant: a getValue<T> that hands out the stored value whatever its type.
AttributeContext_getValueCoerces(c, T) == [c EXCEPT !.ret = c.ctx.val]

\* AttributeContext::getValue<T>(): any_cast of the stored value to
\* shared_ptr<T>; a bad cast is TYPE_MISMATCH; an empty slot gives nullptr.
AttributeContext_getValue(c, T) ==
    IF c.ctx.tag # "none"
    THEN IF c.ctx.tag = T THEN [c EXCEPT !.ret = c.ctx.val]
         ELSE Throw(c, "ERROR::ATTRIBUTE::SET::TYPE_MISMATCH")
    ELSE [c EXCEPT !.ret = nullptr]

\* Variant: a setValue<T> that keeps the value the slot already holds.
AttributeContext_setValueKeepsFirst(c, T, v) ==
    IF c.ctx.tag # "none" /\ c.ctx.tag # T
    THEN Throw(c, "ERROR::ATTRIBUTE::SET::TYPE_MISMATCH")
    ELSE IF c.ctx.tag = "none" THEN [c EXCEPT !.ctx = [tag |-> T, val |-> v]] ELSE c

\* AttributeContext::setValue<T>(value): a slot that holds a value of another
\* type refuses the store with TYPE_MISMATCH; otherwise the value is stored.
AttributeContext_setValue(c, T, v) ==
    IF c.ctx.tag # "none" /\ c.ctx.tag # T
    THEN Throw(c, "ERROR::ATTRIBUTE::SET::TYPE_MISMATCH")
    ELSE [c EXCEPT !.ctx = [tag |-> T, val |-> v]]

\* --------------------------------------------------------- UniformContext
\* UniformContext::getValue<T>(): the stored value when T is the stored tag,
\* TYPE_MISMATCH otherwise.
UniformContext_getValue(c, T) ==
    IF c.ctx.tag = T THEN [c EXCEPT !.ret = c.ctx.val]
    ELSE Throw(c, "ERROR::UNIFORM::TYPE_MISMATCH")

\* UniformContext::setValue<T>(v): stores v and tags it with T.
UniformContext_setValue(c, T, v) == [c EXCEPT !.ctx = [tag |-> T, val |-> v]]

\* ----------------------------------------------------------------- Setters
\* The Setter component of the Uniform Context for a value type.
UniformSetter(T) == IF T = "int" THEN "Uniform.Setter<int>" ELSE "Uniform.Setter<float>"

\* The driver call a Uniform Setter issues for a value type.
glUniform(T) == IF T = "int" THEN "glUniform1i" ELSE "glUniform1f"

\* Uniform Setter<T>: hands the stored value to the driver.
UniformSetter_on(c, T) ==
    [c EXCEPT !.trace = @ \o <<Ev(UniformSetter(T), 0), Ev(glUniform(T), c.ctx.val)>>]

\* Attribute Setter<shared_ptr<int>>: uploads the stored value to the buffer.
AttributeSetter_on(c) ==
    [c EXCEPT !.trace = @ \o <<Ev("Attribute.Setter<shared_ptr<int>>", 0),
                               Ev("glBufferData", c.ctx.val)>>]

\* ----------------------------------------------------------------- Uniform
\* Variant: a set<T> that stores the value before it looks for the Setter.
Uniform_setStoresFirst(c, T, v) ==
    LET s == UniformContext_setValue(c, T, v)
    IN  IF HasComponent(UniformSetter(T)) THEN UniformSetter_on(s, T)
        ELSE Throw(s, "ERROR::UNIFORM::UNSUPPORTED_TYPE")

\* Uniform::set<T>(value): with a Setter<T>, setValue<T>(value) and Setter<T>::on;
\* without one, UNSUPPORTED_TYPE and nothing else.
Uniform_set(c, T, v) ==
    IF HasComponent(UniformSetter(T))
    THEN UniformSetter_on(UniformContext_setValue(c, T, v), T)
    ELSE Throw(c, "ERROR::UNIFORM::UNSUPPORTED_TYPE")

\* Uniform::get<T>().
Uniform_get(c, T) == UniformContext_getValue(c, T)

\* --------------------------------------------------------------- Attribute
\* IAttribute::set<T>(value): setValue<T>(value) first; then the Setter of
\* shared_ptr<int>, whatever T is, or UNSUPPORTED_TYPE when that one is missing.
Attribute_set(c, T, v) ==
    LET s == AttributeContext_setValue(c, T, v)
    IN  IF s.out # "ok" THEN s
        ELSE IF HasComponent("Attribute.Setter<shared_ptr<int>>") THEN AttributeSetter_on(s)
        ELSE Throw(s, "ERROR::ATTRIBUTE::UNSUPPORTED_TYPE")

\* ------------------------------------------------------------ state machine
\* The call op<T>(v) on the entity or Context named on ended as c; was is the
\* slots at the time of the call. stored is history: per Context, the type and
\* value of the last store that returned.
Access(op, on, T, v, c, storedNow) ==
    [op |-> op, on |-> on, type |-> T, val |-> v, trace |-> c.trace, out |-> c.out,
     ret |-> c.ret, was |-> slot, stored |-> storedNow]

\* One Attribute and one Uniform over new Contexts, for a pair the Validator
\* accepts for Attribute and Uniform.
InitSlot ==
    /\ slot = [Attribute |-> NoValue, Uniform |-> NoValue]
    /\ acc = [op |-> "ctor", on |-> "none", type |-> "none", val |-> nullptr, trace |-> <<>>,
              out |-> "ok", ret |-> nullptr,
              was |-> [Attribute |-> NoValue, Uniform |-> NoValue],
              stored |-> [Attribute |-> NoValue, Uniform |-> NoValue]]
    /\ \E D \in {X \in SUBSET (AttributeRoles \cup UniformRoles) : Cardinality(X) <= MaxDefects} :
          /\ status = [r \in Roles |-> IF r \in D THEN "absent" ELSE "ok"]
          /\ Validate("Attribute") /\ Validate("Uniform")
    /\ constructed = Idle /\ rejected = Idle /\ vlog = Idle
    /\ passCount = Idle /\ absentPasses = Idle /\ pipeline = Idle
    /\ iterState = Idle /\ iterLog = Idle
    /\ shader = Idle /\ hist = Idle /\ driver = Idle /\ file = Idle /\ sh = Idle
    /\ pass = Idle /\ env = Idle

\* uniform.set<T>(v)
UniformSet(T, v) ==
    LET c == Uniform_set(Cell(slot.Uniform), T, v)
    IN  /\ slot' = [slot EXCEPT !.Uniform = c.ctx]
        /\ acc' = Access("set", "Uniform", T, v, c,
                         IF c.out = "ok"
                         THEN [acc.stored EXCEPT !.Uniform = [tag |-> T, val |-> v]]
                         ELSE acc.stored)
        /\ UNCHANGED <<pipeVars, shaderVars, passVars, validatorVars>>

\* uniform.get<T>()
UniformGet(T) ==
    LET c == Uniform_get(Cell(slot.Uniform), T)
    IN  /\ slot' = [slot EXCEPT !.Uniform = c.ctx]
        /\ acc' = Access("get", "Uniform", T, nullptr, c, acc.stored)
        /\ UNCHANGED <<pipeVars, shaderVars, passVars, validatorVars>>

\* attribute.set<T>(p); the store it makes first counts when it returned, whether
\* or not set() then raises.
AttributeSet(T, v) ==
    LET c == Attribute_set(Cell(slot.Attribute), T, v)
    IN  /\ slot' = [slot EXCEPT !.Attribute = c.ctx]
        /\ acc' = Access("set", "Attribute", T, v, c,
                         IF AttributeContext_setValue(Cell(slot.Attribute), T, v).out = "ok"
                         THEN [acc.stored EXCEPT !.Attribute = [tag |-> T, val |-> v]]
                         ELSE acc.stored)
        /\ UNCHANGED <<pipeVars, shaderVars, passVars, validatorVars>>

\* attribute.getContext()->setValue<T>(p)
AttributeSetValue(T, v) ==
    LET c == AttributeContext_setValue(Cell(slot.Attribute), T, v)
    IN  /\ slot' = [slot EXCEPT !.Attribute = c.ctx]
        /\ acc' = Access("setValue", "Attribute", T, v, c,
                         IF c.out = "ok"
                         THEN [acc.stored EXCEPT !.Attribute = [tag |-> T, val |-> v]]
                         ELSE acc.stored)
        /\ UNCHANGED <<pipeVars, shaderVars, passVars, validatorVars>>

\* attribute.getContext()->getValue<T>()
AttributeGetValue(T) ==
    LET c == AttributeContext_getValue(Cell(slot.Attribute), T)
    IN  /\ slot' = [slot EXCEPT !.Attribute = c.ctx]
        /\ acc' = Access("getValue", "Attribute", T, nullptr, c, acc.stored)
        /\ UNCHANGED <<pipeVars, shaderVars, passVars, validatorVars>>

NextSlot ==
    \/ \E T \in ValueTypes : \E v \in Values : UniformSet(T, v)
    \/ \E T \in ValueTypes : UniformGet(T)
    \/ \E T \in ValueTypes : \E v \in Values : AttributeSet(T, v)
    \/ \E T \in ValueTypes : \E v \in Values : AttributeSetValue(T, v)
    \/ \E T \in ValueTypes : AttributeGetValue(T)

(***************************************************************************)
(*                   CLAIMS ABOUT THE TYPED VALUE SLOT                     *)
(***************************************************************************)

\* C15: Uniform.set<T>(v) for a type T with no registered Setter raises
\* UNSUPPORTED_TYPE, invokes no Setter and no driver call, and leaves the value
\* stored in the Uniform Context as it was.
C15_UnsupportedUniformTypeRaises ==
    (acc.op = "set" /\ acc.on = "Uniform" /\ ~HasComponent(UniformSetter(acc.type))) =>
        /\ acc.out = "ERROR::UNIFORM::UNSUPPORTED_TYPE"
        /\ acc.trace = <<>>
        /\ slot.Uniform = acc.was.Uniform

\* C15 witness: a set<float> without a Setter<float> on a Uniform that holds an int.
C15_Witness ==
    /\ acc.op = "set" /\ acc.on = "Uniform"
    /\ ~HasComponent(UniformSetter(acc.type))
    /\ acc.was.Uniform.tag = "int"

\* The Setter component of the Attribute Context for a value type, and whether
\* the pair has it.
AttributeSetter(T) == IF T = "int" THEN "Attribute.Setter<int>" ELSE "Attribute.Setter<float>"

AttributeSetterExists(T) == AttributeSetter(T) \in Roles /\ HasComponent(AttributeSetter(T))

IsSetterCall(e) == e.ev \in AttributeRoles

\* C16: Attribute.set<T>(v) invokes the Setter registered for T exactly once when
\* there is one, and no other; when there is none it raises UNSUPPORTED_TYPE
\* without invoking any Setter or driver call. set<T> looks for the Setter of
\* shared_ptr<int>, whatever T is.
C16_AttributeSetUsesSetterOfType ==
    (acc.op = "set" /\ acc.on = "Attribute"
        /\ (acc.was.Attribute.tag = "none" \/ acc.was.Attribute.tag = acc.type)) =>
        IF AttributeSetterExists(acc.type)
        THEN /\ Count(acc.trace, AttributeSetter(acc.type)) = 1
             /\ Len(SelectSeq(acc.trace, IsSetterCall)) = 1
        ELSE /\ acc.out = "ERROR::ATTRIBUTE::UNSUPPORTED_TYPE"
             /\ acc.trace = <<>>

\* The last read asked for the type of the last store that returned.
ReadsBack ==
    /\ acc.op \in {"get", "getValue"}
    /\ acc.stored[acc.on].tag = acc.type

\* C17: for every supported type T and value v, a set<T>(v) that returned followed,
\* with no set in between, by get<T>() gives exactly v, for the Uniform
\* (set / get) and for the Attribute Context (setValue / getValue).
C17_SlotRoundTrip ==
    ReadsBack => (acc.out = "ok" /\ acc.ret = acc.stored[acc.on].val)

\* C17 witness: the Attribute Context gives back the second value stored in it
\* while the Uniform holds a value of its own.
C17_Witness ==
    /\ ReadsBack
    /\ acc.on = "Attribute"
    /\ acc.ret = MaxValue
    /\ acc.stored.Uniform.tag # "none"

\* The last read asked for a type other than the one the slot holds.
ReadsOtherType ==
    /\ acc.op \in {"get", "getValue"}
    /\ acc.was[acc.on].tag \notin {"none", acc.type}

\* C18: reading a slot that holds a value of type T with getValue<U>(), U # T,
\* raises TYPE_MISMATCH, returns no value, and leaves the stored value as it was.
C18_MismatchedReadRaises ==
    ReadsOtherType =>
        /\ acc.out \in {"ERROR::ATTRIBUTE::SET::TYPE_MISMATCH", "ERROR::UNIFORM::TYPE_MISMATCH"}
        /\ acc.ret = nullptr
        /\ slot = acc.was

\* C18 witness: getValue<float>() on an Attribute Context that holds an int.
C18_Witness ==
    /\ ReadsOtherType
    /\ acc.on = "Attribute"
    /\ acc.type = "float"

\* C38: the type of an Attribute Context's slot is fixed by the first setValue<T>
\* that returns: on a slot holding a T, setValue<U> with U # T raises
\* TYPE_MISMATCH and leaves the stored value as it was, setValue<T> replaces the
\* value; so Attribute.set<U>() on such a slot fails before any Setter runs.
C38_SlotTypeFixedByFirstStore ==
    (acc.on = "Attribute" /\ acc.op \in {"set", "setValue"}
        /\ acc.was.Attribute.tag # "none") =>
        IF acc.type # acc.was.Attribute.tag
        THEN /\ acc.out = "ERROR::ATTRIBUTE::SET::TYPE_MISMATCH"
             /\ slot.Attribute = acc.was.Attribute
             /\ acc.trace = <<>>
        ELSE /\ slot.Attribute = [tag |-> acc.was.Attribute.tag, val |-> acc.val]
             /\ acc.op = "setValue" => acc.out = "ok"

\* C38 witness: set<float>() on an Attribute whose slot holds an int was refused.
C38_Witness ==
    /\ acc.on = "Attribute" /\ acc.op = "set"
    /\ acc.was.Attribute.tag = "int"
    /\ acc.type = "float"
    /\ acc.out = "ERROR::ATTRIBUTE::SET::TYPE_MISMATCH"
    /\ HasComponent("Attribute.Setter<shared_ptr<int>>")

\* C19: AttributeContext.getValue<T>() on a slot in which no setValue ever stored
\* anything reports a failure. The code returns nullptr.
C19_EmptySlotReadFails ==
    (acc.op = "getValue" /\ acc.on = "Attribute" /\ acc.stored.Attribute.tag = "none") =>
        acc.out # "ok"

(***************************************************************************)
(*                                 PASS                                    *)
(*  IPass / Pass<API, PROFILE> (Pass.hpp) with the roles of the Pass       *)
(*  Context; the Shaders of the Pass are the Shaders modelled above.       *)
(***************************************************************************)
\* ------------------------------------------------------------------ bounds
\* A Pass is built from at most this many Shaders.
MaxShaders == 2

\* At most this many Pass objects returned by withUniform() are alive at a time.
MaxCopies == 1

\* The step of Pass.load() the driver will fail, if any.
Failures == {"none", "link", "uniforms", "attributes"}

\* The kind of the Shader at a position of the constructor's list.
KindAt(i) ==
    CASE i = 1 -> "VERTEX"
      [] i = 2 -> "FRAGMENT"
      [] OTHER -> "GEOMETRY"

\* The names withUniform() is called with; the linked program's active uniforms
\* are some of them, its active attributes are AttributeNames.
UniformNames == {"uColor", "uScale", "uTime"}

\* The active uniforms of a linked program, by index, when nothing else is said.
ActiveList == <<"uColor", "uScale">>

ActiveUniforms == {ActiveList[k] : k \in DOMAIN ActiveList}

\* What glGetActiveUniform reports for an index: name, native type tag, array size.
GLTypes == {"GL_FLOAT", "GL_INT"}

ArraySizes == {1, 2}

Reports == [name : UniformNames, type : GLTypes, size : ArraySizes]

DefaultActive == [k \in DOMAIN ActiveList |-> [name |-> ActiveList[k], type |-> "GL_FLOAT", size |-> 1]]

\* glGetUniformLocation: one location per name of the program.
glGetUniformLocation(name) ==
    CASE name = "uColor" -> 0
      [] name = "uScale" -> 1
      [] OTHER -> 2

\* What a Uniform is constructed with: location, type tag, array size.
NoInfo == [location |-> -1, type |-> "", size |-> 0]

AttributeNames == {"aPosition"}

\* A name the map has no entry for, and the entry the reader makes for a name.
NoEntry == [present |-> FALSE, value |-> NoValue]

NewEntry == [present |-> TRUE, value |-> NoValue]

\* Variant: a constructor that adds the shaders last to first.
IPassReversed(shaders) ==
    [shaders |-> [k \in DOMAIN shaders |-> shaders[Len(shaders) + 1 - k]], programId |-> 0,
     uniforms |-> [n \in UniformNames |-> NoEntry],
     attributes |-> [n \in AttributeNames |-> NoEntry],
     info |-> [n \in UniformNames |-> NoInfo],
     alive |-> TRUE, owners |-> 1]

\* IPass(shaders, context): addShader for each shader, in the list's order; the
\* maps are empty; owners counts the Pass objects that hold the Context.
IPass(shaders) ==
    [shaders |-> shaders, programId |-> 0,
     uniforms |-> [n \in UniformNames |-> NoEntry],
     attributes |-> [n \in AttributeNames |-> NoEntry],
     info |-> [n \in UniformNames |-> NoInfo],
     alive |-> TRUE, owners |-> 1]

\* IPass::getShaders(): the Context's list.
getShaders(pctx) == pctx.shaders

\* PassContext::getUniforms() / getAttributes(): the names that have an entry.
getUniforms(pctx) == {n \in UniformNames : pctx.uniforms[n].present}

getAttributes(pctx) == {n \in AttributeNames : pctx.attributes[n].present}

\* ---------------------------------------------------------- driver boundary
glCreateProgram(w) ==
    [Call(w, "glCreateProgram", w.drv.next) EXCEPT
        !.drv.programs = @ \cup {w.drv.next}, !.drv.next = @ + 1]

\* glDeleteProgram(p): again keeps the names deleted while not a live program.
glDeleteProgram(w, p) ==
    [Call(w, "glDeleteProgram", p) EXCEPT
        !.drv.programs = @ \ {p}, !.drv.stale = @ \/ p \notin w.drv.programs,
        !.drv.again = @ \cup (IF p \in w.drv.programs THEN {} ELSE {p})]

\* GL_LINK_STATUS of the program.
Links == env.fail # "link"

\* --------------------------------------------------------------- Pass roles
RECURSIVE AttachEach(_, _, _)
AttachEach(w, p, k) ==
    IF k > Len(w.pctx.shaders) THEN w
    ELSE AttachEach(Call(w, "glAttachShader", w.shaders[w.pctx.shaders[k]].shaderID), p, k + 1)

RECURSIVE FreeEach(_, _)
FreeEach(w, k) ==
    IF k > Len(w.pctx.shaders) \/ w.out # "ok" THEN w
    ELSE FreeEach(Shader_free(w, w.pctx.shaders[k]), k + 1)

\* Variant: an attach step that frees the Shaders' handles before it links.
ShaderAttacherFreesFirst_on(w) ==
    LET w0 == Call(w, "Pass.ShaderAttacher", 0)
        p == w0.drv.next
        w1 == [glCreateProgram(w0) EXCEPT !.pctx.programId = p]
        w2 == FreeEach(AttachEach(w1, p, 1), 1)
        w3 == Call(w2, "glLinkProgram", p)
        w4 == Call(w3, "glGetProgramiv", p)
    IN  IF w3.out # "ok" THEN w3
        ELSE IF Links THEN w4
        ELSE LET w5 == glDeleteProgram(Call(w4, "glGetProgramInfoLog", p), p)
             IN  Raise([w5 EXCEPT !.pctx.programId = 0],
                       "ERROR::SHADER::COMPILATION_FAILED", w5.drv.log)

\* ShaderAttacher: create the program, attach each Shader's handle, link, free
\* each Shader's own handle; on a failed link release the program and raise
\* COMPILATION_FAILED with the link log.
ShaderAttacher_on(w) ==
    LET w0 == Call(w, "Pass.ShaderAttacher", 0)
        p == w0.drv.next
        w1 == [glCreateProgram(w0) EXCEPT !.pctx.programId = p]
        w2 == Call(AttachEach(w1, p, 1), "glLinkProgram", p)
        w3 == FreeEach(w2, 1)
        w4 == Call(w3, "glGetProgramiv", p)
    IN  IF w3.out # "ok" THEN w3
        ELSE IF Links THEN w4
        ELSE LET w5 == glDeleteProgram(Call(w4, "glGetProgramInfoLog", p), p)
             IN  Raise([w5 EXCEPT !.pctx.programId = 0],
                       "ERROR::SHADER::COMPILATION_FAILED", w5.drv.log)

\* Pass Loader: the attach/link step of the Pass.
PassLoader_on(w) == ShaderAttacher_on(Call(w, "Pass.Loader", 0))

\* UniformReader / AttributeReader: enumerate the linked program's active
\* uniforms / attributes into the Pass's maps.
RECURSIVE ReadEach(_, _, _)
ReadEach(w, upTo, i) ==
    IF i > upTo THEN w
    ELSE LET a == env.active[i]
             loc == glGetUniformLocation(a.name)
             w1 == Call(Call(w, "glGetActiveUniform", i - 1), "glGetUniformLocation", loc)
         IN  ReadEach([w1 EXCEPT !.pctx.uniforms[a.name] = NewEntry,
                                 !.pctx.info[a.name] =
                                     [location |-> loc, type |-> a.type, size |-> a.size]],
                      upTo, i + 1)

\* Variant: a reader that stops after the first active uniform.
PassUniformReaderFirstOnly_on(w) ==
    LET w0 == Call(Call(w, "Pass.UniformReader", 0), "glGetProgramiv", w.pctx.programId)
        w1 == [w0 EXCEPT !.pctx.uniforms = [n \in UniformNames |-> NoEntry],
                         !.pctx.info = [n \in UniformNames |-> NoInfo]]
    IN  IF env.fail = "uniforms" THEN Raise(w0, "ERROR::PASS::UNIFORM_READ_FAILED", "")
        ELSE ReadEach(w1, IF Len(env.active) > 0 THEN 1 ELSE 0, 1)

\* UniformReader: the count of active uniforms, then for each index the name, type
\* and size the driver reports and the location of that name; the entry under the
\* name is (re)made from them.
PassUniformReader_on(w) ==
    LET w0 == Call(Call(w, "Pass.UniformReader", 0), "glGetProgramiv", w.pctx.programId)
        w1 == [w0 EXCEPT !.pctx.uniforms = [n \in UniformNames |-> NoEntry],
                         !.pctx.info = [n \in UniformNames |-> NoInfo]]
    IN  IF env.fail = "uniforms" THEN Raise(w0, "ERROR::PASS::UNIFORM_READ_FAILED", "")
        ELSE ReadEach(w1, Len(env.active), 1)

PassAttributeReader_on(w) ==
    LET w0 == Call(Call(w, "Pass.AttributeReader", 0), "glGetProgramiv", w.pctx.programId)
    IN  IF env.fail = "attributes" THEN Raise(w0, "ERROR::PASS::ATTRIBUTE_READ_FAILED", "")
        ELSE [w0 EXCEPT !.pctx.attributes = [n \in AttributeNames |-> NewEntry]]

\* Pass User: makes the Context's program the current one.
PassUser_on(w) ==
    Call(Call(w, "Pass.User", 0), "glUseProgram", w.pctx.programId)

\* Variant: a Freer that deletes whatever program name the Context holds.
PassFreerUnguarded_on(w) ==
    glDeleteProgram(Call(w, "Pass.Freer", 0), w.pctx.programId)

\* Pass Freer: releases the program the Context refers to, if any, and forgets it.
PassFreer_on(w) ==
    LET w0 == Call(w, "Pass.Freer", 0)
        p == w0.pctx.programId
    IN  IF "Pass" \in w0.drv.freeFails
        THEN Raise(w0, "ERROR::PASS::FREE_FAILED", "release failed")
        ELSE IF p = 0 THEN w0
        ELSE [glDeleteProgram(w0, p) EXCEPT !.pctx.programId = 0]

\* -------------------------------------------------------------- Pass entity
\* Pass::load(context), readUniforms, readAttributes, free(context).
Pass_load_on(w) ==
    IF HasComponent("Pass.Loader") THEN PassLoader_on(w) ELSE w

Pass_readUniforms(w) ==
    IF HasComponent("Pass.UniformReader") THEN PassUniformReader_on(w) ELSE w

Pass_readAttributes(w) ==
    IF HasComponent("Pass.AttributeReader") THEN PassAttributeReader_on(w) ELSE w

Pass_free_on(w) ==
    IF HasComponent("Pass.Freer") THEN PassFreer_on(w) ELSE w

Pass_use_on(w) ==
    IF HasComponent("Pass.User") THEN PassUser_on(w) ELSE w

RECURSIVE LoadEach(_, _)
LoadEach(w, k) ==
    IF k > Len(w.pctx.shaders) \/ w.out # "ok" THEN w
    ELSE LoadEach(Shader_load(w, w.pctx.shaders[k]), k + 1)

\* Variant: a load() that still reads the uniforms after a failed attach/link.
Pass_loadKeepsGoing(w) ==
    LET s == LoadEach(Call(w, "Pass.load", 0), 1)
        l == IF s.out = "ok" THEN Pass_load_on(s) ELSE s
        u == Pass_readUniforms([l EXCEPT !.out = "ok"])
        v == IF l.out = "ok" THEN u ELSE [u EXCEPT !.out = l.out, !.msg = l.msg, !.raised = l.raised]
    IN  IF v.out = "ok" THEN Pass_readAttributes(v) ELSE v

\* IPass::load(): load each Shader in order, load(m_context), readUniforms,
\* readAttributes; the first exception leaves load().
Pass_load(w) ==
    LET s == LoadEach(Call(w, "Pass.load", 0), 1)
        l == IF s.out = "ok" THEN Pass_load_on(s) ELSE s
        u == IF l.out = "ok" THEN Pass_readUniforms(l) ELSE l
    IN  IF u.out = "ok" THEN Pass_readAttributes(u) ELSE u

\* IPass::free().
Pass_free(w) == Pass_free_on(Call(w, "Pass.free", 0))

\* IPass::use().
Pass_use(w) == Pass_use_on(Call(w, "Pass.use", 0))

\* PassContext::getUniform(name): the Uniform stored under name, or none.
getUniform(pctx, name) == pctx.uniforms[name]

\* Pass::shared(): make_shared<Pass>(*this), a new Pass object built as a copy of
\* this one; the copy holds the same Context.
shared(w) == [Call(w, "Pass.shared", 0) EXCEPT !.pctx.owners = @ + 1]

\* Variant: a withUniform() that sets every Uniform of the map.
Pass_withUniformSetsAll(w, name, T, v) ==
    LET w0 == [Call(w, "Pass.withUniform", 0) EXCEPT
                   !.arg = [name |-> name, type |-> T, val |-> v]]
    IN  shared([w0 EXCEPT !.pctx.uniforms =
                    [n \in UniformNames |->
                        [present |-> TRUE, value |-> [tag |-> T, val |-> v]]]])

\* IPass::withUniform<T>(name, value): the Uniform found under name is set and
\* shared() is returned; without one, UNIFORM_NOT_FOUND.
Pass_withUniform(w, name, T, v) ==
    LET w0 == [Call(w, "Pass.withUniform", 0) EXCEPT
                   !.arg = [name |-> name, type |-> T, val |-> v]]
        u == getUniform(w0.pctx, name)
        c == Uniform_set([Cell(u.value) EXCEPT !.trace = w0.trace], T, v)
        w1 == [w0 EXCEPT !.pctx.uniforms[name].value = c.ctx, !.trace = c.trace]
    IN  IF u.present
        THEN IF c.out = "ok" THEN shared(w1) ELSE Raise(w1, c.out, "")
        ELSE Raise(w0, "ERROR::SHADER::UNIFORM_NOT_FOUND", name)

RECURSIVE DestroyEach(_, _)
DestroyEach(w, k) ==
    IF k > Len(w.pctx.shaders) \/ w.out # "ok" THEN w
    ELSE DestroyEach(Shader_dtor(w, w.pctx.shaders[k]), k + 1)

\* Variant: a destructor that calls free() outside any try block.
Pass_dtorNoCatch(w) ==
    LET f == Pass_free(Call(w, "~Pass", 0))
    IN  IF f.out # "ok" THEN [f EXCEPT !.out = "std::terminate"]
        ELSE IF f.pctx.owners > 1 THEN [f EXCEPT !.pctx.owners = @ - 1]
        ELSE [DestroyEach(f, 1) EXCEPT !.pctx.alive = FALSE, !.pctx.owners = 0]

\* Pass::~Pass(): free() inside try/catch, what() to cerr; then the Pass lets go
\* of the Context, and when it was the last one to hold it the Context goes and
\* with it the Shaders it owns.
Pass_dtor(w) ==
    LET f == Pass_free(Call(w, "~Pass", 0))
        c == IF f.out = "ok" THEN f
             ELSE [Call(f, "cerr", 0) EXCEPT !.out = "ok", !.msg = ""]
    IN  IF c.pctx.owners > 1 THEN [c EXCEPT !.pctx.owners = @ - 1]
        ELSE [DestroyEach(c, 1) EXCEPT !.pctx.alive = FALSE, !.pctx.owners = 0]

\* A Pass<API, PROFILE> over 0..MaxShaders Shaders, for a pair the Validator
\* accepts for Shader and Pass.
InitPass ==
    /\ \E n \in 0..MaxShaders :
          /\ shader = [i \in 1..n |-> IShader(KindAt(i))]
          /\ hist = [i \in 1..n |-> [kind |-> KindAt(i), created |-> 0, dels |-> 0,
                                     alive |-> TRUE]]
          /\ file \in [1..n -> FileStates]
          /\ pass = IPass([i \in 1..n |-> i])
    /\ env \in [fail : Failures, active : {DefaultActive}]
    /\ driver = NewDriver("0:1: syntax error")
    /\ sh = NoCall
    /\ \E D \in {X \in SUBSET (ShaderRoles \cup PassRoles) : Cardinality(X) <= MaxDefects} :
          /\ status = [r \in Roles |-> IF r \in D THEN "absent" ELSE "ok"]
          /\ Validate("Shader") /\ Validate("Pass")
    /\ constructed = Idle /\ rejected = Idle /\ vlog = Idle
    /\ passCount = Idle /\ absentPasses = Idle /\ pipeline = Idle
    /\ iterState = Idle /\ iterLog = Idle
    /\ slot = Idle /\ acc = Idle

\* pass.load()
PassLoad ==
    /\ Running
    /\ pass.alive
    /\ driver.next + Len(pass.shaders) <= MaxHandles
    /\ Commit(Pass_load(World), "Pass.load", 0)
    /\ UNCHANGED <<file, env, pipeVars, validatorVars, slotVars>>

\* pass.free()
PassFree ==
    /\ Running
    /\ pass.alive
    /\ Commit(Pass_free(World), "Pass.free", 0)
    /\ UNCHANGED <<file, env, pipeVars, validatorVars, slotVars>>

\* The Pass goes out of scope.
PassDestroy ==
    /\ Running
    /\ pass.alive
    /\ Commit(Pass_dtor(World), "~Pass", 0)
    /\ UNCHANGED <<file, env, pipeVars, validatorVars, slotVars>>

\* pass.use()
PassUse ==
    /\ Running
    /\ pass.alive
    /\ Commit(Pass_use(World), "Pass.use", 0)
    /\ UNCHANGED <<file, env, pipeVars, validatorVars, slotVars>>

\* pass.withUniform<T>(name, value); the caller keeps the pointer it gets.
PassWithUniform(name, T, v) ==
    /\ Running
    /\ pass.alive
    /\ pass.owners <= MaxCopies
    /\ Commit(Pass_withUniform(World, name, T, v), "Pass.withUniform", 0)
    /\ UNCHANGED <<file, env, pipeVars, validatorVars, slotVars>>

\* A Pass<API, PROFILE> with its Uniforms, for a pair the Validator accepts for
\* Shader, Pass and Uniform; the source files of its Shaders are all missing, all
\* good or all bad.
InitPassUse ==
    /\ \E n \in 0..MaxShaders :
          /\ shader = [i \in 1..n |-> IShader(KindAt(i))]
          /\ hist = [i \in 1..n |-> [kind |-> KindAt(i), created |-> 0, dels |-> 0,
                                     alive |-> TRUE]]
          /\ \E f \in FileStates : file = [i \in 1..n |-> f]
          /\ pass = IPass([i \in 1..n |-> i])
    /\ env \in [fail : Failures, active : {DefaultActive}]
    /\ driver = NewDriver("0:1: syntax error")
    /\ sh = NoCall
    /\ \E D \in {X \in SUBSET (ShaderRoles \cup PassRoles \cup UniformRoles) :
                     Cardinality(X) <= MaxDefects} :
          /\ status = [r \in Roles |-> IF r \in D THEN "absent" ELSE "ok"]
          /\ Validate("Shader") /\ Validate("Pass") /\ Validate("Uniform")
    /\ constructed = Idle /\ rejected = Idle /\ vlog = Idle
    /\ passCount = Idle /\ absentPasses = Idle /\ pipeline = Idle
    /\ iterState = Idle /\ iterLog = Idle
    /\ slot = Idle /\ acc = Idle

\* The Pass and the Pass objects withUniform() returned are used and destroyed
\* in any order.
NextPassUse ==
    \/ PassLoad
    \/ PassUse
    \/ \E n \in UniformNames : \E T \in ValueTypes : \E v \in Values : PassWithUniform(n, T, v)
    \/ PassFree
    \/ PassDestroy

\* A Shader of the Pass is loaded or freed through the caller's own pointer to it.
NextPassOps ==
    \/ PassLoad
    \/ PassFree
    \/ PassDestroy
    \/ \E i \in DOMAIN shader : ShaderLoad(i)
    \/ \E i \in DOMAIN shader : ShaderFree(i)

(***************************************************************************)
(*                         CLAIMS ABOUT LOADING                            *)
(***************************************************************************)

IsPassStep(e) ==
    e.ev \in {"Shader.load", "Pass.Loader", "Pass.UniformReader", "Pass.AttributeReader"}

\* The order Pass.load() is to follow.
LoadOrder ==
    [k \in 1..Len(pass.shaders) |-> Ev("Shader.load", pass.shaders[k])]
        \o <<Ev("Pass.Loader", 0), Ev("Pass.UniformReader", 0), Ev("Pass.AttributeReader", 0)>>

IsPrefix(s, t) == Len(s) <= Len(t) /\ s = SubSeq(t, 1, Len(s))

\* C5: Pass.load() invokes, in this order and each exactly once, load() on every
\* Shader of the Pass in the Pass's order, the attach/link role, the
\* UniformReader, the AttributeReader; a load() that a failing step ends has run
\* a prefix of that order, so that nothing is attached before every Shader is
\* loaded and nothing is read before the link has succeeded.
C5_PassLoadOrder ==
    sh.op = "Pass.load" =>
        /\ IsPrefix(SelectSeq(sh.trace, IsPassStep), LoadOrder)
        /\ sh.out = "ok" => SelectSeq(sh.trace, IsPassStep) = LoadOrder

\* C6: when a step of Shader.load() or Pass.load() fails, no later step of that
\* load is invoked, the failed step was invoked once only, the caller gets what
\* the step raised, and every later free() and destruction ends without raising.
C6_FailedLoadAborts ==
    /\ (sh.op \in {"Shader.load", "Pass.load"} /\ sh.out # "ok") =>
          /\ sh.raised.step = Len(Steps(sh.trace))
          /\ sh.raised.step > 0
          /\ CountArg(Steps(sh.trace), Steps(sh.trace)[sh.raised.step].ev,
                      Steps(sh.trace)[sh.raised.step].arg) = 1
          /\ sh.out = sh.raised.err /\ sh.msg = sh.raised.msg
    /\ (sh.op \in {"Shader.load", "Pass.load"} /\ sh.out = "ok") => sh.raised.step = 0
    /\ sh.op \in {"Shader.free", "Pass.free", "~Pass"} => sh.out = "ok"

\* C6 witness: a Pass whose load() failed at the link, after its two Shaders were
\* loaded, is destroyed.
C6_Witness ==
    /\ sh.op = "~Pass"
    /\ 0 \in sh.failed
    /\ env.fail = "link"
    /\ Len(pass.shaders) = 2
    /\ \A i \in DOMAIN hist : hist[i].created # 0

(***************************************************************************)
(*               CLAIMS ABOUT THE PASS, ITS UNIFORMS AND COPIES            *)
(***************************************************************************)

C12_ContextHasOneOwner ==
    pass.alive => pass.owners = 1

\* The Uniform a successful withUniform<T>(name, v) leaves under name.
SetEntry(a) == [present |-> TRUE, value |-> [tag |-> a.type, val |-> a.val]]

\* C13 as stated: withUniform(name, value) changes no uniform but the one under
\* name; when name is present that uniform's value becomes value; when name is
\* absent it raises UNIFORM_NOT_FOUND and no uniform is mutated.
C13_WithUniformSetsNamed ==
    [][sh'.op = "Pass.withUniform" =>
          /\ \A n \in UniformNames \ {sh'.arg.name} : pass'.uniforms[n] = pass.uniforms[n]
          /\ pass.uniforms[sh'.arg.name].present =>
                /\ sh'.out = "ok"
                /\ pass'.uniforms[sh'.arg.name] = SetEntry(sh'.arg)
          /\ ~pass.uniforms[sh'.arg.name].present =>
                /\ sh'.out = "ERROR::SHADER::UNIFORM_NOT_FOUND"
                /\ pass'.uniforms = pass.uniforms]_vars

\* C13 amended: withUniform<T>(name, value) changes no uniform but the one under
\* name; when name is present and the call returns, that uniform's value is
\* value; when name is present and T has no Setter it raises UNSUPPORTED_TYPE and
\* no uniform is mutated; when name is absent it raises UNIFORM_NOT_FOUND and no
\* uniform is mutated.
C13_WithUniformSetsNamedIfSupported ==
    [][sh'.op = "Pass.withUniform" =>
          /\ \A n \in UniformNames \ {sh'.arg.name} : pass'.uniforms[n] = pass.uniforms[n]
          /\ (pass.uniforms[sh'.arg.name].present /\ sh'.out = "ok") =>
                pass'.uniforms[sh'.arg.name] = SetEntry(sh'.arg)
          /\ (pass.uniforms[sh'.arg.name].present /\ ~HasComponent(UniformSetter(sh'.arg.type))) =>
                /\ sh'.out = "ERROR::UNIFORM::UNSUPPORTED_TYPE"
                /\ pass'.uniforms = pass.uniforms
          /\ ~pass.uniforms[sh'.arg.name].present =>
                /\ sh'.out = "ERROR::SHADER::UNIFORM_NOT_FOUND"
                /\ pass'.uniforms = pass.uniforms]_vars

\* C13 witness: withUniform() has just set one uniform while another one holds a
\* different value set before.
C13_Witness ==
    /\ sh.op = "Pass.withUniform"
    /\ sh.out = "ok"
    /\ pass.uniforms[sh.arg.name] = SetEntry(sh.arg)
    /\ \E n \in UniformNames \ {sh.arg.name} :
          /\ pass.uniforms[n].value.tag # "none"
          /\ pass.uniforms[n].value # pass.uniforms[sh.arg.name].value

\* C14: as long as no load() of the Pass has completed successfully, its Uniform
\* map and its Attribute map are empty and withUniform() raises UNIFORM_NOT_FOUND.
\* A load() that the AttributeReader ends has already filled the Uniform map.
C14_MapsEmptyUntilLoaded ==
    ~sh.loaded =>
        /\ getUniforms(pass) = {}
        /\ getAttributes(pass) = {}
        /\ sh.op = "Pass.withUniform" => sh.out = "ERROR::SHADER::UNIFORM_NOT_FOUND"

\* C37: withUniform() never invokes the Pass's Freer role, neither during the
\* call nor when a Pass object it returned is destroyed (a destruction while
\* another Pass object still holds the Context): the native program stays as it
\* is, so after load() and withUniform() calls it is unreleased at the next use().
C37_WithUniformNeverFrees ==
    [][/\ sh'.op = "Pass.withUniform" =>
              /\ Count(sh'.trace, "Pass.Freer") = 0
              /\ pass'.programId = pass.programId
       /\ (sh'.op = "~Pass" /\ pass.owners > 1) =>
              /\ Count(sh'.trace, "Pass.Freer") = 0
              /\ pass'.programId = pass.programId]_vars

\* C33: the Shader collection of a Pass is fixed at construction: it holds the
\* constructor's shaders in the given order, and load, use, free and withUniform
\* neither add, remove nor reorder a Shader.
C33_ShaderListFixed ==
    getShaders(pass) = [i \in 1..Len(shader) |-> i]

\* C33 witness: a Pass over two Shaders has been loaded and a withUniform() on it
\* has returned.
C33_Witness ==
    /\ sh.op = "Pass.withUniform" /\ sh.out = "ok"
    /\ sh.loaded
    /\ Len(getShaders(pass)) = 2

\* The one position of an event that occurs once in a trace.
PosOf(seq, name) == CHOOSE k \in Positions(seq, name) : TRUE

\* C28: the attach step of a Pass creates one program, attaches the compiled
\* handle of every owned Shader, links, and only then frees each Shader's own
\* handle; when the link fails the program is released exactly once, the step
\* fails with COMPILATION_FAILED carrying the link log, and no uniform or
\* attribute read follows.
C28_AttachLinkThenFree ==
    (sh.op = "Pass.load" /\ Count(sh.trace, "Pass.ShaderAttacher") = 1) =>
        /\ Count(sh.trace, "glCreateProgram") = 1
        /\ Count(sh.trace, "glLinkProgram") = 1
        /\ LET t == sh.trace
               made == PosOf(t, "glCreateProgram")
               link == PosOf(t, "glLinkProgram")
               p == t[made].arg
           IN  /\ Len(ArgsOf(t, "glAttachShader")) = Len(pass.shaders)
               /\ ArgsOf(t, "glAttachShader") = ArgsOf(t, "glCreateShader")
               /\ \A k \in Positions(t, "glAttachShader") : made < k /\ k < link
               /\ \A k \in Positions(t, "glDeleteShader") : link < k
               /\ ArgsOf(t, "glDeleteShader") = ArgsOf(t, "glAttachShader")
               /\ t[link].arg = p
               /\ IF env.fail = "link"
                  THEN /\ ArgsOf(t, "glDeleteProgram") = <<p>>
                       /\ link < PosOf(t, "glDeleteProgram")
                       /\ sh.out = "ERROR::SHADER::COMPILATION_FAILED"
                       /\ sh.msg = driver.log
                       /\ Count(t, "Pass.UniformReader") = 0
                       /\ Count(t, "Pass.AttributeReader") = 0
                       /\ getUniforms(pass) = {} \/ sh.loaded
                  ELSE Count(t, "glDeleteProgram") = 0

\* C28 witness: the link of a Pass over two compiled Shaders failed.
C28_Witness ==
    /\ sh.op = "Pass.load"
    /\ env.fail = "link"
    /\ Len(pass.shaders) = 2
    /\ Count(sh.trace, "glAttachShader") = 2
    /\ sh.out = "ERROR::SHADER::COMPILATION_FAILED"

(***************************************************************************)
(*                     READING THE ACTIVE UNIFORMS                         *)
(*  A Pass whose linked program reports any list of up to MaxActive active *)
(*  uniforms, one name possibly under several indices.                     *)
(***************************************************************************)
MaxActive == 2

ActiveLists == UNION {[1..n -> Reports] : n \in 0..MaxActive}

InitRead ==
    /\ \E n \in 0..MaxShaders :
          /\ shader = [i \in 1..n |-> IShader(KindAt(i))]
          /\ hist = [i \in 1..n |-> [kind |-> KindAt(i), created |-> 0, dels |-> 0,
                                     alive |-> TRUE]]
          /\ file = [i \in 1..n |-> "good"]
          /\ pass = IPass([i \in 1..n |-> i])
    /\ env \in [fail : {"none", "link"}, active : ActiveLists]
    /\ driver = NewDriver("0:1: syntax error")
    /\ sh = NoCall
    /\ status = [r \in Roles |-> "ok"]
    /\ constructed = Idle /\ rejected = Idle /\ vlog = Idle
    /\ passCount = Idle /\ absentPasses = Idle /\ pipeline = Idle
    /\ iterState = Idle /\ iterLog = Idle
    /\ slot = Idle /\ acc = Idle

NextRead ==
    \/ PassLoad
    \/ PassFree
    \/ PassUse

ReportedNames == {env.active[k].name : k \in DOMAIN env.active}

\* C29: after the uniform read step of a successfully linked Pass, the keys of the
\* Pass's uniform map are the names the driver reports for the program's active
\* uniforms (a name reported twice has one entry), and each entry stores the
\* location of its name and a type tag and array size reported for it.
C29_UniformMapMirrorsDriver ==
    (sh.op = "Pass.load" /\ Count(sh.trace, "Pass.UniformReader") = 1 /\ sh.out = "ok") =>
        /\ getUniforms(pass) = ReportedNames
        /\ \A n \in getUniforms(pass) :
              /\ pass.info[n].location = glGetUniformLocation(n)
              /\ \E k \in DOMAIN env.active :
                    /\ env.active[k].name = n
                    /\ pass.info[n].type = env.active[k].type
                    /\ pass.info[n].size = env.active[k].size
        /\ \A n \in UniformNames \ getUniforms(pass) : pass.info[n] = NoInfo

\* C29 witness: the driver reported one name under two indices, with different
\* types, and the map holds one entry.
C29_Witness ==
    /\ sh.op = "Pass.load" /\ sh.out = "ok"
    /\ Count(sh.trace, "Pass.UniformReader") = 1
    /\ Len(env.active) = 2
    /\ env.active[1].name = env.active[2].name
    /\ env.active[1].type # env.active[2].type
    /\ Cardinality(getUniforms(pass)) = 1

(***************************************************************************)
(*                     A SHADER FREED AGAIN AND AGAIN                      *)
(*  One Shader; iterState counts the explicit free() calls made on it,     *)
(*  iterLog keeps the Freer invocations of all its calls.                  *)
(***************************************************************************)
MaxFrees == 3

InitFree ==
    /\ \E k \in ShaderTypes :
          /\ shader = <<IShader(k)>>
          /\ hist = <<[kind |-> k, created |-> 0, dels |-> 0, alive |-> TRUE]>>
    /\ \E f \in FileStates : file = <<f>>
    /\ \E F \in SUBSET {"Shader"} :
          driver = [NewDriver("0:1: syntax error") EXCEPT !.freeFails = F]
    /\ sh = NoCall
    /\ pass = Idle /\ env = Idle
    /\ status = [r \in Roles |-> "ok"]
    /\ constructed = Idle /\ rejected = Idle /\ vlog = Idle
    /\ passCount = Idle /\ absentPasses = Idle /\ pipeline = Idle
    /\ iterState = 0
    /\ iterLog = <<>>
    /\ slot = Idle /\ acc = Idle

FreerCalls(trace) == SelectSeq(trace, LAMBDA ev : ev.ev = "Shader.Freer")

\* shader.free(), counted.
CountedFree ==
    /\ Running
    /\ hist[1].alive
    /\ iterState < MaxFrees
    /\ Commit(Shader_free(World, 1), "Shader.free", 1)
    /\ iterState' = iterState + 1
    /\ iterLog' = iterLog \o FreerCalls(sh'.trace)
    /\ UNCHANGED <<file, env, passCount, absentPasses, pipeline, validatorVars, slotVars>>

\* delete shader, counted.
CountedDestroy ==
    /\ Running
    /\ hist[1].alive
    /\ Commit(Shader_dtor(World, 1), "~Shader", 1)
    /\ iterLog' = iterLog \o FreerCalls(sh'.trace)
    /\ UNCHANGED <<file, env, passCount, absentPasses, pipeline, iterState, validatorVars,
                   slotVars>>

NextFree ==
    \/ ShaderLoad(1)
    \/ CountedFree
    \/ CountedDestroy

\* C34: the Shader keeps no freed flag: every explicit free() invokes the Freer
\* role exactly once and destruction invokes it once more, so a Shader freed k
\* times and then destroyed has invoked the Freer exactly k + 1 times.
C34_FreerRunsPerFree ==
    /\ sh.op \in {"Shader.free", "~Shader"} => Count(sh.trace, "Shader.Freer") = 1
    /\ Len(iterLog) = iterState + (IF hist[1].alive THEN 0 ELSE 1)

\* C34 witness: a loaded Shader was freed twice, then destroyed.
C34_Witness ==
    /\ ~hist[1].alive
    /\ iterState = 2
    /\ hist[1].created # 0
    /\ Len(iterLog) = 3

(***************************************************************************)
(*                       ROLES INVOKED DIRECTLY                            *)
(*  The role components called with a Context pointer of the caller's      *)
(*  choice, as the component tests do: on(nullptr) and on(context).        *)
(***************************************************************************)
ContextPtrs == {"nullptr", "context"}

NonValidContext == "ERROR::SHADER::NON_VALID_CONTEXT"

\* OpenGLPipelineUser<Classic>::on: the null check, then the pass at the cursor.
OpenGLPipelineUser_on(p, ctx) ==
    IF ctx = "nullptr" THEN [p EXCEPT !.out = NonValidContext]
    ELSE PipelineUser_on(p)

\* OpenGLPipelineResetter<Classic>::on: the null check, then the cursor reset.
OpenGLPipelineResetter_on(p, ctx) ==
    IF ctx = "nullptr" THEN [p EXCEPT !.out = NonValidContext]
    ELSE PipelineResetter_on(p)

\* OpenGLPassUser::usePass: the null check, then glUseProgram.
OpenGLPassUser_usePass(w, ctx) ==
    IF ctx = "nullptr" THEN Raise(w, "ERROR::SHADER::NON_OPENGL_CONTEXT", "")
    ELSE PassUser_on(w)

RoleCall(role, ctx) == role \o "(" \o ctx \o ")"

\* A Pipeline Context over 0..MaxPasses passes and a Pass Context holding any
\* program name, as a test arranges them.
InitRoles ==
    /\ passCount \in 0..MaxPasses
    /\ absentPasses \in SUBSET (0..(passCount - 1))
    /\ pipeline = [cur |-> -1, op |-> "ctor", arg |-> 0, trace |-> <<>>, out |-> "ok",
                   ret |-> "none"]
    /\ iterState = "none"
    /\ iterLog = <<>>
    /\ shader = <<>> /\ hist = <<>> /\ file = <<>>
    /\ \E h \in 0..1 : pass = [IPass(<<>>) EXCEPT !.programId = h]
    /\ env = [fail |-> "none", active |-> DefaultActive]
    /\ driver = NewDriver("0:1: syntax error")
    /\ sh = NoCall
    /\ status = [r \in Roles |-> "ok"]
    /\ constructed = Idle /\ rejected = Idle /\ vlog = Idle
    /\ slot = Idle /\ acc = Idle

\* context->setCurrentPass(i)
SetCurrentPass(i) ==
    /\ pipeline' = setCurrentPass([Fresh(pipeline, "setCurrentPass") EXCEPT !.arg = i], i)
    /\ UNCHANGED <<passCount, absentPasses, iterState, iterLog>>
    /\ UNCHANGED <<shaderVars, passVars, validatorVars, slotVars>>

\* OpenGLPipelineUser<Classic>::on(ctx)
PipelineUserOn(ctx) ==
    /\ pipeline' = OpenGLPipelineUser_on(Fresh(pipeline, RoleCall("User.on", ctx)), ctx)
    /\ UNCHANGED <<passCount, absentPasses, iterState, iterLog>>
    /\ UNCHANGED <<shaderVars, passVars, validatorVars, slotVars>>

\* OpenGLPipelineResetter<Classic>::on(ctx)
PipelineResetterOn(ctx) ==
    /\ pipeline' = OpenGLPipelineResetter_on(Fresh(pipeline, RoleCall("Resetter.on", ctx)), ctx)
    /\ UNCHANGED <<passCount, absentPasses, iterState, iterLog>>
    /\ UNCHANGED <<shaderVars, passVars, validatorVars, slotVars>>

\* OpenGLPassUser().usePass(ctx)
PassUserOn(ctx) ==
    /\ Commit(OpenGLPassUser_usePass(World, ctx), RoleCall("Pass.User.on", ctx), 0)
    /\ UNCHANGED <<file, env, pipeVars, validatorVars, slotVars>>

NextRoles ==
    \/ \E i \in UseArgs : SetCurrentPass(i)
    \/ \E ctx \in ContextPtrs : PipelineUserOn(ctx)
    \/ \E ctx \in ContextPtrs : PipelineResetterOn(ctx)
    \/ \E ctx \in ContextPtrs : PassUserOn(ctx)

NativeCalls(trace) == {k \in DOMAIN trace : trace[k].ev \in {"glUseProgram", "Pass.use"}}

\* C24: the User role of the Pass and of the Pipeline and the Pipeline Resetter,
\* invoked with a null Context, fail with NON_VALID_CONTEXT, issue no native call
\* and activate no pass.
\* The Pass User of the sources names its failure NON_OPENGL_CONTEXT.
C24_NullContextIsNonValidContext ==
    /\ pipeline.op \in {"User.on(nullptr)", "Resetter.on(nullptr)"} =>
          pipeline.out = NonValidContext /\ NativeCalls(pipeline.trace) = {}
    /\ sh.op = "Pass.User.on(nullptr)" =>
          sh.out = NonValidContext /\ NativeCalls(sh.trace) = {}

\* C25: the Pipeline User role, invoked on a Context whose cursor c is the index
\* of a stored pass, calls use() exactly once on the pass at position c and on no
\* other pass, and changes neither the cursor nor the pass sequence.
C25_UserActivatesPassAtCursor ==
    [][(/\ pipeline'.op = "User.on(context)"
        /\ pipeline.cur \in 0..(passCount - 1)
        /\ pipeline.cur \notin absentPasses)
       => /\ ArgsOf(pipeline'.trace, "Pass.use") = <<pipeline.cur>>
          /\ pipeline'.out = "ok"
          /\ pipeline'.cur = pipeline.cur
          /\ passCount' = passCount
          /\ absentPasses' = absentPasses]_vars

\* C25 witness: the role ran with the cursor on the second of three passes and
\* activated that pass.
C25_Witness ==
    /\ pipeline.op = "User.on(context)"
    /\ passCount = 3
    /\ pipeline.cur = 1
    /\ ArgsOf(pipeline.trace, "Pass.use") = <<1>>

(***************************************************************************)
(*                    DESTRUCTION WITH A FAILING FREER                     *)
(*  Shaders and a Pass of an API whose Freer roles may fail; the Pass owns *)
(*  the first Shaders, the others are the caller's own; every source file  *)
(*  compiles.                                                              *)
(***************************************************************************)
InitRelease ==
    /\ \E n \in 0..MaxShaders : \E m \in 0..n :
          /\ shader = [i \in 1..n |-> IShader(KindAt(i))]
          /\ hist = [i \in 1..n |-> [kind |-> KindAt(i), created |-> 0, dels |-> 0,
                                     alive |-> TRUE]]
          /\ file = [i \in 1..n |-> "good"]
          /\ pass = IPass([i \in 1..m |-> i])
    /\ env = [fail |-> "none", active |-> DefaultActive]
    /\ \E F \in SUBSET {"Shader", "Pass"} :
          driver = [NewDriver("0:1: syntax error") EXCEPT !.freeFails = F]
    /\ sh = NoCall
    /\ status = [r \in Roles |-> "ok"]
    /\ constructed = Idle /\ rejected = Idle /\ vlog = Idle
    /\ passCount = Idle /\ absentPasses = Idle /\ pipeline = Idle
    /\ iterState = Idle /\ iterLog = Idle
    /\ slot = Idle /\ acc = Idle

\* delete shader, for a Shader the Pass does not hold.
OwnShaderDestroy(i) ==
    /\ i > Len(pass.shaders)
    /\ ShaderDestroy(i)

NextRelease ==
    \/ PassLoad
    \/ PassFree
    \/ PassDestroy
    \/ \E i \in DOMAIN shader : ShaderLoad(i)
    \/ \E i \in DOMAIN shader : ShaderFree(i)
    \/ \E i \in DOMAIN shader : OwnShaderDestroy(i)

\* C26: destroying a Shader invokes free(), hence the Freer role, exactly once,
\* and a failure the Freer raises during destruction is swallowed at the destructor
\* and never reaches the code that destroys the Shader.
\* ~Shader() calls free() outside any try block: the failure leaves a destructor
\* and the program is terminated.
C26_ShaderDtorSwallowsFreerFailure ==
    sh.op = "~Shader" =>
        /\ Count(sh.trace, "Shader.free") = 1
        /\ Count(sh.trace, "Shader.Freer") = 1
        /\ sh.out = "ok"

\* C32: destroying a parent destroys its children and cascades free(): a Pass that
\* is destroyed is freed exactly once and every Shader it owns is destroyed and
\* freed, none being left unreleased.
\* The destructor of a Shader whose Freer fails ends the program, before the
\* Shaders after it are destroyed.
C32_DestructionCascades ==
    (sh.op = "~Pass" /\ ~pass.alive) =>
        /\ Count(sh.trace, "Pass.free") = 1
        /\ \A k \in DOMAIN pass.shaders :
              /\ ~hist[pass.shaders[k]].alive
              /\ CountArg(sh.trace, "~Shader", pass.shaders[k]) = 1
              /\ CountArg(sh.trace, "Shader.free", pass.shaders[k]) = 1

\* C27: destroying a Pass invokes its Freer role exactly once; a failure the Freer
\* raises during destruction is caught, reported on the error stream and does not
\* leave the destructor; a failure of pass.free() outside the destructor reaches
\* the caller as raised.
C27_PassDtorCatchesFreerFailure ==
    /\ sh.op = "~Pass" =>
          /\ Count(sh.trace, "Pass.Freer") = 1
          /\ Count(sh.trace, "cerr") = (IF "Pass" \in driver.freeFails THEN 1 ELSE 0)
          /\ \A k \in Positions(sh.trace, "cerr") : sh.trace[k - 1].ev = "Pass.Freer"
          /\ sh.out # "ERROR::PASS::FREE_FAILED"
          /\ sh.out # "ok" => Count(sh.trace, "~Shader") >= 1
    /\ (sh.op = "Pass.free" /\ "Pass" \in driver.freeFails) =>
          /\ sh.out = "ERROR::PASS::FREE_FAILED"
          /\ sh.msg = "release failed"
          /\ sh.raised.err = sh.out /\ sh.raised.msg = sh.msg

\* C27 witness: a loaded Pass whose Freer fails was destroyed; the failure was
\* reported and the destructor returned.
C27_Witness ==
    /\ sh.op = "~Pass"
    /\ "Pass" \in driver.freeFails
    /\ Count(sh.trace, "cerr") = 1
    /\ pass.programId # 0
    /\ sh.out = "ok"

(***************************************************************************)
(*                           SPECIFICATIONS                                *)
(***************************************************************************)
SpecPipeline ==
    InitPipeline /\ [][NextPipeline]_vars

SpecValidator ==
    InitValidator /\ [][NextValidator]_vars

SpecShader ==
    InitShader /\ [][NextShader]_vars

\* The loop's thread keeps running: a step that is possible is taken.
SpecFree ==
    InitFree /\ [][NextFree]_vars

SpecLoop ==
    InitLoop /\ [][NextLoop]_vars /\ WF_vars(NextLoop)

\* The caller never stops calling.
SpecCycle ==
    InitCycle /\ [][NextCycle]_vars /\ WF_vars(NextCycle)

SpecPass ==
    InitPass /\ [][NextPassOps]_vars

SpecPassUse ==
    InitPassUse /\ [][NextPassUse]_vars

SpecRead ==
    InitRead /\ [][NextRead]_vars

SpecRelease ==
    InitRelease /\ [][NextRelease]_vars

SpecRoles ==
    InitRoles /\ [][NextRoles]_vars

SpecSlot ==
    InitSlot /\ [][NextSlot]_vars

=============================================================================
